---- MODULE Spec2Model ----
(***************************************************************************)
(* Model of the query-builder engine of api.shared.system.query_builder:   *)
(* the field and operator registries of IQueryBuilder, the parsing of the  *)
(* client's filter structure by the pydantic rule models, and the          *)
(* recursive compilation of build_where into a clause and a params map.    *)
(*                                                                         *)
(* A clause is a sequence of tokens: Sql(s) is literal SQL text s and      *)
(* Placeholder(k) is the text ":<k>" for the params key k.  A params key   *)
(* f"{field.name}_{uuid4().hex}" is the record [name, suffix]; a key the   *)
(* caller wrote without a uuid has suffix 0.                               *)
(***************************************************************************)
EXTENDS Integers, Sequences, FiniteSets, TLC

VARIABLES
    \* IQueryBuilder: the registries, and the mappings they were built from.
    fields, operators, supplied_fields, supplied_operators,
    \* A call of build_where: where the caller stands, the arguments, the
    \* dict the caller passed after the call, the outcome.
    pc, where_, params_in, caller_params, result,
    \* A call of build_order_by: the argument and the outcome.
    order_by_, order_result,
    \* The random source uuid4 draws from.
    rng,
    \* Calls that run at the same time, and the dict objects they hold.
    calls, heap,
    \* The QueryBuilder assemblers, and the outcome of build().
    builders, build_result,
    \* The committed rows of auth.user and the HTTP requests under way.
    users, requests,
    \* A call of get_filters: the arguments and the outcome.
    query, filters_result

engineVars == <<fields, operators, supplied_fields, supplied_operators>>
whereVars == <<pc, where_, params_in, caller_params, result>>
orderVars == <<order_by_, order_result>>
concurrentVars == <<calls, heap>>
assemblerVars == <<builders, build_result>>
serverVars == <<users, requests, query, filters_result>>

vars ==
    <<engineVars, whereVars, orderVars, rng, concurrentVars, assemblerVars,
      serverVars>>

(***************************************************************************)
(* Bounds of the model.                                                    *)
(***************************************************************************)
\* Largest number of nodes (simple and complex rules) of a filter tree.
MaxNodes == 3
\* Largest number of rules of an order-by list.
MaxOrderRules == 2
\* Largest number of items of a mapping given to IQueryBuilder.__init__.
MaxSupplied == 2
\* The random source is in one of the states 0..MaxSeed.
MaxSeed == 1
\* The filters query parameter is every text of at most MaxTokens JSON tokens.
MaxTokens == 3
\* At most MaxUsers ids of auth.user are ever issued.
MaxUsers == 3
\* Calls of build_where and build_order_by are under way at the same time.
NumCalls == 2

(***************************************************************************)
(* Python values.                                                          *)
(***************************************************************************)
\* None as the where_ argument.
None == [None |-> TRUE]

\* None as the params argument (the default of build_where).
NoParams == [k \in {[name |-> "None", suffix |-> 0 - 1]} |-> [ty |-> "none"]]

\* The empty dict {}.
EmptyDict == <<>>

StrValue(s) == [ty |-> "str", v |-> s, w |-> 0]
IntValue(s) == [ty |-> "int", v |-> s, w |-> 0]
NoneValue == [ty |-> "none", v |-> "None", w |-> 0]
\* A JSON object given as a leaf value: not a Value.
DictValue == [ty |-> "dict", v |-> "{}", w |-> 0]

\* str.lower() on the strings of the model.
Lower(s) ==
    CASE s = "Name" -> "name"
      [] s = "NAME" -> "name"
      [] s = "ID" -> "id"
      [] s = "Tag" -> "tag"
      [] s = "Equal" -> "equal"
      [] s = "EQUAL" -> "equal"
      [] s = "AND" -> "and"
      [] s = "OR" -> "or"
      [] s = "Or" -> "or"
      [] s = "XOR" -> "xor"
      [] s = "DESC" -> "desc"
      [] s = "ASC" -> "asc"
      [] OTHER -> s

\* The members of the StrEnum Conditions.
Conditions == {"and", "or"}

(***************************************************************************)
(* Field and its transform.                                                *)
(***************************************************************************)
\* Field.__init__; transform "None" and cast "None" are the unset defaults.
Field(name, db_definition, transform, cast) ==
    [name |-> name, definition |-> db_definition,
     transform |-> transform, cast |-> cast]

\* field.transform(value) for the transforms the registry declares:
\* "str" is the builtin str, "like" is lambda v: f"%{v}%".
ApplyTransform(transform, value) ==
    CASE transform = "str" -> [ty |-> "str", v |-> value.v, w |-> value.w]
      [] transform = "like" -> [ty |-> "str", v |-> value.v, w |-> value.w + 1]

(***************************************************************************)
(* Tokens of a clause.                                                     *)
(***************************************************************************)
Sql(s) == [t |-> "sql", s |-> s]
Placeholder(param_name) == [t |-> "param", key |-> param_name]

(***************************************************************************)
(* The pydantic rule models.  A parsed model is written as the dict its    *)
(* model_dump() gives: the declared fields only, defaults filled in.       *)
(***************************************************************************)
\* The type Value = ScalarValue | list[ScalarValue].
IsValue(value) == value.ty \in {"str", "int", "float", "bool", "none", "list"}

\* SimpleWhereRule(**d) validates: field, operator and value are required.
ValidSimpleWhereRule(d) ==
    /\ {"field", "operator", "value"} \subseteq DOMAIN d
    /\ IsValue(d.value)

\* SimpleWhereRule(**d): keys that are not fields of the model are ignored.
SimpleWhereRule(d) ==
    [field |-> d.field, operator |-> d.operator, value |-> d.value]

RECURSIVE ValidComplexWhereRule(_)
\* ComplexWhereRule(**d) validates: rules is required and every element of
\* it validates as SimpleWhereRule or as ComplexWhereRule.
ValidComplexWhereRule(d) ==
    /\ "rules" \in DOMAIN d
    /\ \A i \in 1..Len(d.rules) :
          \/ ValidSimpleWhereRule(d.rules[i])
          \/ ValidComplexWhereRule(d.rules[i])

RECURSIVE ComplexWhereRule(_)
\* ComplexWhereRule(**d): condition defaults to Conditions.AND; an element
\* of rules that validates as both members of the union becomes the
\* SimpleWhereRule (the leftmost member, and the one with more fields set).
ComplexWhereRule(d) ==
    [condition |-> IF "condition" \in DOMAIN d THEN d.condition ELSE "and",
     rules |-> [i \in 1..Len(d.rules) |->
                   IF ValidSimpleWhereRule(d.rules[i])
                   THEN SimpleWhereRule(d.rules[i])
                   ELSE ComplexWhereRule(d.rules[i])]]

(***************************************************************************)
(* Operators.                                                              *)
(***************************************************************************)
\* A uuid4 that gives the same value at every draw.
uuid4_Constant(params) == 1

\* A suffix taken from the clock alone.
uuid4_Clock(params) == rng + 1

\* uuid4().hex: a suffix that no key of params carries, which one depending
\* on the state of the random source.  Every uuid drawn during a compilation
\* is written to params at once, so this is a value that was not drawn
\* before.
uuid4(params) ==
    CHOOSE n \in (rng + 1)..(rng + Cardinality(DOMAIN params) + 1) :
        \A k \in DOMAIN params : k.suffix # n

\* The cast of the PostgreSQL dialect: f"cast(:{param_name} as {cast_type})".
cast(param_name, cast_type) ==
    <<Sql("cast("), Placeholder(param_name), Sql(" as "), Sql(cast_type),
      Sql(")")>>

\* A param that draws a second uuid for the placeholder it returns.
param_SecondUuid(field, params, value) ==
    LET param_name == [name |-> field.name, suffix |-> uuid4(params)]
        bound == IF field.transform # "None"
                 THEN ApplyTransform(field.transform, value)
                 ELSE value
        registered == (param_name :> bound) @@ params
        other_name == [name |-> field.name, suffix |-> uuid4(registered)]
    IN [params |-> registered,
        sql |-> IF field.cast # "None"
                THEN cast(other_name, field.cast)
                ELSE <<Placeholder(other_name)>>]

\* A param that transforms the value it was given already transformed.
param_TransformTwice(field, params, value) ==
    LET param_name == [name |-> field.name, suffix |-> uuid4(params)]
        bound == IF field.transform # "None"
                 THEN ApplyTransform(field.transform,
                                     ApplyTransform(field.transform, value))
                 ELSE value
    IN [params |-> (param_name :> bound) @@ params,
        sql |-> IF field.cast # "None"
                THEN cast(param_name, field.cast)
                ELSE <<Placeholder(param_name)>>]

\* A param that returns the bare placeholder whatever the cast of the field.
param_NeverCasts(field, params, value) ==
    LET param_name == [name |-> field.name, suffix |-> uuid4(params)]
        bound == IF field.transform # "None"
                 THEN ApplyTransform(field.transform, value)
                 ELSE value
    IN [params |-> (param_name :> bound) @@ params,
        sql |-> <<Placeholder(param_name)>>]

\* IOperator.param: registers the value and returns the placeholder text.
param(field, params, value) ==
    LET param_name == [name |-> field.name, suffix |-> uuid4(params)]
        bound == IF field.transform # "None"
                 THEN ApplyTransform(field.transform, value)
                 ELSE value
    IN [params |-> (param_name :> bound) @@ params,
        sql |-> IF field.cast # "None"
                THEN cast(param_name, field.cast)
                ELSE <<Placeholder(param_name)>>]

\* An Equal.compile that writes the value into the SQL text.
EqualCompile_Interpolated(field, value, params) ==
    [params |-> params,
     sql |-> <<Sql(field.definition), Sql(" = "), Sql(value.v)>>]

\* Equal.compile: f"{field.definition} = {self.param(field, params, value)}".
EqualCompile(field, value, params) ==
    LET p == param(field, params, value)
    IN [params |-> p.params,
        sql |-> <<Sql(field.definition), Sql(" = ")>> \o p.sql]

\* operator.compile(field, value, params), by the class of the operator.
compile(operator, field, value, params) ==
    CASE operator = "Equal" -> EqualCompile(field, value, params)

(***************************************************************************)
(* IQueryBuilder.                                                          *)
(***************************************************************************)
\* The mappings given to IQueryBuilder.__init__ at start-up.
SuppliedFields ==
    [Name |-> Field("name", "users.name", "None", "None"),
     id |-> Field("id", "users.id", "str", "uuid"),
     Tag |-> Field("tag", "users.tag", "like", "None")]

SuppliedOperators == [Equal |-> "Equal"]

\* A dict as the sequence of its items, in the order of the dict.
Item(name, item) == [name |-> name, item |-> item]

SuppliedFieldItems ==
    <<Item("Name", SuppliedFields.Name), Item("id", SuppliedFields.id),
      Item("Tag", SuppliedFields.Tag)>>

SuppliedOperatorItems == <<Item("Equal", SuppliedOperators.Equal)>>

\* The last of the items of the mapping at the given places.
LastItem(mapping, places) ==
    mapping[CHOOSE i \in places : \A j \in places : j <= i].item

\* A registry that keeps the names as they were supplied.
LowerKeys_AsSupplied(mapping) ==
    [k \in {mapping[i].name : i \in 1..Len(mapping)} |->
        LastItem(mapping, {i \in 1..Len(mapping) : mapping[i].name = k})]

\* {name.lower(): item for name, item in mapping.items()}: of the items
\* whose names have the same lowercase form, the last one stays.
LowerKeys(mapping) ==
    [k \in {Lower(mapping[i].name) : i \in 1..Len(mapping)} |->
        LastItem(mapping, {i \in 1..Len(mapping) : Lower(mapping[i].name) = k})]

\* A returned clause, and a raised error with the params as they were left.
Return(clause, params) == [raised |-> "", clause |-> clause, params |-> params]
Raise(error, params) == [raised |-> error, clause |-> <<>>, params |-> params]

\* A join that gives the trivially-true clause for no rules at all.
RECURSIVE Join_EmptyIsTrue(_, _)
Join_EmptyIsTrue(separator, compiled_rules) ==
    IF compiled_rules = <<>> THEN <<Sql("1=1")>>
    ELSE IF Len(compiled_rules) = 1 THEN Head(compiled_rules)
    ELSE Head(compiled_rules) \o <<separator>>
            \o Join_EmptyIsTrue(separator, Tail(compiled_rules))

\* separator.join(compiled_rules)
RECURSIVE Join(_, _)
Join(separator, compiled_rules) ==
    IF compiled_rules = <<>> THEN <<>>
    ELSE IF Len(compiled_rules) = 1 THEN Head(compiled_rules)
    ELSE Head(compiled_rules) \o <<separator>>
            \o Join(separator, Tail(compiled_rules))

\* A build_where that starts from a dict of its own whatever it was given.
OrEmpty_AlwaysNew(params) == EmptyDict

\* A separator that keeps the client's spelling of the condition.
ConditionSeparator_AsGiven(condition) == Sql(" " \o condition \o " ")

\* f" {rule.condition.lower()} "
ConditionSeparator(condition) == Sql(" " \o Lower(condition) \o " ")

\* params or {}
OrEmpty(params) ==
    IF params = NoParams \/ DOMAIN params = {} THEN EmptyDict ELSE params

RECURSIVE build_where(_, _)
RECURSIVE build_sub_rules(_, _, _, _)

\* The loop of build_where over rule.rules, from the i-th rule on: an error
\* of a sub rule leaves the loop and the call.
build_sub_rules(rules, i, compiled_rules, params) ==
    IF i > Len(rules) THEN Return(compiled_rules, params)
    ELSE LET sub == build_where(rules[i], params)
         IN IF sub.raised # "" THEN sub
            ELSE build_sub_rules(rules, i + 1,
                    Append(compiled_rules,
                           <<Sql("(")>> \o sub.clause \o <<Sql(")")>>),
                    sub.params)

\* A build_where that looks the field up before the operator.
build_where_FieldFirst(where, params_arg) ==
    LET params == OrEmpty(params_arg) IN
    IF where = None \/ DOMAIN where = {} THEN Return(<<Sql("1=1")>>, params)
    ELSE IF "field" \in DOMAIN where THEN
        IF ~ValidSimpleWhereRule(where) THEN Raise("ValidationError", params)
        ELSE LET rule == SimpleWhereRule(where) IN
            IF Lower(rule.field) \notin DOMAIN fields
            THEN Raise("Unknown field", params)
            ELSE IF Lower(rule.operator) \notin DOMAIN operators
            THEN Raise("Unsupported operator", params)
            ELSE LET compiled_rule ==
                        compile(operators[Lower(rule.operator)],
                                fields[Lower(rule.field)], rule.value, params)
                 IN Return(compiled_rule.sql, compiled_rule.params)
    ELSE IF "condition" \in DOMAIN where THEN
        IF ~ValidComplexWhereRule(where) THEN Raise("ValidationError", params)
        ELSE LET rule == ComplexWhereRule(where) IN
            IF Lower(rule.condition) \notin Conditions
            THEN Raise("Unsupported condition", params)
            ELSE LET compiled == build_sub_rules(rule.rules, 1, <<>>, params)
                 IN IF compiled.raised # "" THEN compiled
                    ELSE Return(Join(ConditionSeparator(rule.condition),
                                     compiled.clause),
                                compiled.params)
    ELSE Raise("Invalid where clause structure", params)

\* IQueryBuilder.build_where(where_, params).
build_where(where, params_arg) ==
    LET params == OrEmpty(params_arg) IN
    IF where = None \/ DOMAIN where = {} THEN Return(<<Sql("1=1")>>, params)
    ELSE IF "field" \in DOMAIN where THEN
        IF ~ValidSimpleWhereRule(where) THEN Raise("ValidationError", params)
        ELSE LET rule == SimpleWhereRule(where) IN
            IF Lower(rule.operator) \notin DOMAIN operators
            THEN Raise("Unsupported operator", params)
            ELSE IF Lower(rule.field) \notin DOMAIN fields
            THEN Raise("Unknown field", params)
            ELSE LET compiled_rule ==
                        compile(operators[Lower(rule.operator)],
                                fields[Lower(rule.field)], rule.value, params)
                 IN Return(compiled_rule.sql, compiled_rule.params)
    ELSE IF "condition" \in DOMAIN where THEN
        IF ~ValidComplexWhereRule(where) THEN Raise("ValidationError", params)
        ELSE LET rule == ComplexWhereRule(where) IN
            IF Lower(rule.condition) \notin Conditions
            THEN Raise("Unsupported condition", params)
            ELSE LET compiled == build_sub_rules(rule.rules, 1, <<>>, params)
                 IN IF compiled.raised # "" THEN compiled
                    ELSE Return(Join(ConditionSeparator(rule.condition),
                                     compiled.clause),
                                compiled.params)
    ELSE Raise("Invalid where clause structure", params)

\* The dict object the caller passed as params, after the call: build_where
\* writes to that object when it is truthy and to a dict of its own when it
\* is None or empty.
CallerParamsAfter(params_arg, outcome) ==
    IF params_arg = NoParams \/ DOMAIN params_arg = {} THEN params_arg
    ELSE outcome.params

\* The members of the StrEnum Directions.
Directions == {"asc", "desc"}

\* OrderByRule(**d) validates: field is required.
ValidOrderByRule(d) == "field" \in DOMAIN d

\* OrderByRule(**d): direction defaults to Directions.ASC.
OrderByRule(d) ==
    [field |-> d.field,
     direction |-> IF "direction" \in DOMAIN d THEN d.direction ELSE "asc"]

\* What build_order_by returns and raises.
OrderReturn(clause) == [raised |-> "", clause |-> clause]
OrderRaise(error) == [raised |-> error, clause |-> <<>>]

\* A loop body that writes the direction as the client spelt it.
order_by_rule_DirectionAsGiven(order) ==
    IF ~ValidOrderByRule(order) THEN OrderRaise("ValidationError")
    ELSE LET rule == OrderByRule(order) IN
        IF Lower(rule.direction) \notin Directions
        THEN OrderRaise("Unsupported order by direction")
        ELSE IF Lower(rule.field) \notin DOMAIN fields
        THEN OrderRaise("Unknown field")
        ELSE OrderReturn(<<Sql(fields[Lower(rule.field)].definition), Sql(" "),
                           Sql(rule.direction)>>)

\* A loop body that writes the field as the client named it.
order_by_rule_FieldAsGiven(order) ==
    IF ~ValidOrderByRule(order) THEN OrderRaise("ValidationError")
    ELSE LET rule == OrderByRule(order) IN
        IF Lower(rule.direction) \notin Directions
        THEN OrderRaise("Unsupported order by direction")
        ELSE IF Lower(rule.field) \notin DOMAIN fields
        THEN OrderRaise("Unknown field")
        ELSE OrderReturn(<<Sql(rule.field), Sql(" "),
                           Sql(Lower(rule.direction))>>)

\* A loop body that looks the field up before it checks the direction.
order_by_rule_FieldFirst(order) ==
    IF ~ValidOrderByRule(order) THEN OrderRaise("ValidationError")
    ELSE LET rule == OrderByRule(order) IN
        IF Lower(rule.field) \notin DOMAIN fields
        THEN OrderRaise("Unknown field")
        ELSE IF Lower(rule.direction) \notin Directions
        THEN OrderRaise("Unsupported order by direction")
        ELSE OrderReturn(<<Sql(fields[Lower(rule.field)].definition), Sql(" "),
                           Sql(Lower(rule.direction))>>)

\* The body of the loop of build_order_by: one rule parsed, checked and
\* written as f"{field.definition} {rule.direction.lower()}".
order_by_rule(order) ==
    IF ~ValidOrderByRule(order) THEN OrderRaise("ValidationError")
    ELSE LET rule == OrderByRule(order) IN
        IF Lower(rule.direction) \notin Directions
        THEN OrderRaise("Unsupported order by direction")
        ELSE IF Lower(rule.field) \notin DOMAIN fields
        THEN OrderRaise("Unknown field")
        ELSE OrderReturn(<<Sql(fields[Lower(rule.field)].definition), Sql(" "),
                           Sql(Lower(rule.direction))>>)

RECURSIVE order_by_loop(_, _, _)
\* The loop of build_order_by from the i-th rule on: an error of a rule
\* leaves the loop and the call.
order_by_loop(order_by, i, order_by_clauses) ==
    IF i > Len(order_by) THEN OrderReturn(order_by_clauses)
    ELSE LET compiled == order_by_rule(order_by[i])
         IN IF compiled.raised # "" THEN compiled
            ELSE order_by_loop(order_by, i + 1,
                               Append(order_by_clauses, compiled.clause))

\* IQueryBuilder.build_order_by(order_by_).
build_order_by(order_by) ==
    LET looped == order_by_loop(order_by, 1, <<>>)
    IN IF looped.raised # "" THEN looped
       ELSE OrderReturn(Join(Sql(", "), looped.clause))

(***************************************************************************)
(* The inputs of the client.                                               *)
(***************************************************************************)
Leaf(field, operator, value) ==
    [field |-> field, operator |-> operator, value |-> value]

Complex(condition, rules) == [condition |-> condition, rules |-> rules]

LeafValues == {StrValue("Alice"), IntValue("7"), NoneValue}

\* The simple rules given at the top level.
TopLeaves ==
    {Leaf(f, o, v) : f \in {"name", "NAME", "id", "Tag", "nope"},
                     o \in {"equal", "EQUAL", "gt"},
                     v \in LeafValues}

\* The simple rules given as children of a complex rule, and a child that
\* is neither a simple nor a complex rule.
ChildLeaves ==
    {Leaf("name", "equal", v) : v \in {StrValue("Alice"), IntValue("7")}}
    \cup {Leaf("ID", "Equal", v) : v \in {StrValue("Alice"), IntValue("7")}}
    \cup {Leaf("Tag", "equal", StrValue("Alice")),
          Leaf("nope", "equal", StrValue("Alice")),
          Leaf("name", "gt", StrValue("Alice")),
          [field |-> "name", operator |-> "equal"]}

TreeConditions == {"and", "OR", "xor"}

RECURSIVE TreesOfSize(_)
RECURSIVE ForestsOfSize(_)

\* The sequences of trees with n nodes in all.
ForestsOfSize(n) ==
    IF n = 0 THEN {<<>>}
    ELSE UNION {{<<t>> \o f : t \in TreesOfSize(k), f \in ForestsOfSize(n - k)} :
                 k \in 1..n}

\* The rule trees with n nodes.
TreesOfSize(n) ==
    (IF n = 1 THEN ChildLeaves ELSE {})
    \cup {Complex(c, f) : c \in TreeConditions, f \in ForestsOfSize(n - 1)}

\* Structures that are no rule, or both rules at once.
OddInputs ==
    {[rules |-> <<>>],
     [rules |-> <<Leaf("name", "equal", StrValue("Alice"))>>],
     [value |-> StrValue("Alice")],
     [field |-> "name"],
     [field |-> "name", operator |-> "equal"],
     [field |-> "name", condition |-> "and", rules |-> <<>>],
     Leaf("name", "equal", DictValue),
     [field |-> "name", operator |-> "equal", value |-> StrValue("Alice"),
      condition |-> "xor", rules |-> <<>>],
     [condition |-> "and"],
     [condition |-> "and",
      rules |-> <<[rules |-> <<>>], Leaf("name", "equal", StrValue("Alice"))>>]}

WhereInputs ==
    {None, EmptyDict} \cup TopLeaves \cup OddInputs
    \cup UNION {TreesOfSize(n) \ ChildLeaves : n \in 1..MaxNodes}

Key(name, suffix) == [name |-> name, suffix |-> suffix]

\* The params the caller passes: none, an empty dict, a dict with a binding
\* of its own, a dict that an earlier compilation filled.
ParamsInputs ==
    {NoParams, EmptyDict,
     Key("tenant", 0) :> StrValue("acme"),
     Key("name", 1) :> StrValue("Bob"),
     (Key("tenant", 0) :> StrValue("acme")) @@ (Key("name", 2) :> IntValue("7"))}

\* The rules of an order-by list: with a direction, without one, and one
\* without a field.
OrderRules ==
    {[field |-> f, direction |-> d] : f \in {"name", "ID", "nope"},
                                      d \in {"asc", "desc", "DESC", "up"}}
    \cup {[field |-> f] : f \in {"name", "ID", "nope"}}
    \cup {[direction |-> "asc"]}

RECURSIVE OrderListsOfLen(_)
OrderListsOfLen(n) ==
    IF n = 0 THEN {<<>>}
    ELSE {Append(l, r) : l \in OrderListsOfLen(n - 1), r \in OrderRules}

OrderByInputs == UNION {OrderListsOfLen(n) : n \in 0..MaxOrderRules}

(***************************************************************************)
(* The state machine: the engine is constructed once, then the caller      *)
(* calls build_where and later drops what it got.                          *)
(***************************************************************************)
\* The states of the random source.
Seeds == 0..MaxSeed

\* No call of build_where or build_order_by is under way or answered.
NoCall ==
    /\ where_ = None
    /\ params_in = NoParams
    /\ caller_params = NoParams
    /\ result = Return(<<>>, EmptyDict)
    /\ order_by_ = <<>>
    /\ order_result = OrderReturn(<<>>)

\* build() was not called.
NoBuild == [of |-> 0, raised |-> "", text |-> <<>>]

\* get_filters was not called.
NoQuery == [request_id |-> 0, filters |-> <<"absent">>]
NoFilters == [raised |-> "", value |-> [ty |-> "none"]]

\* No HTTP request is under way and get_filters was not called.
NoServer ==
    /\ users = <<>>
    /\ requests = <<>>
    /\ query = NoQuery
    /\ filters_result = NoFilters

\* No concurrent call and no assembler exists.
NothingElse ==
    /\ calls = <<>>
    /\ heap = <<>>
    /\ builders = <<>>
    /\ build_result = NoBuild
    /\ NoServer

Init ==
    /\ supplied_fields = SuppliedFieldItems
    /\ supplied_operators = SuppliedOperatorItems
    /\ fields = LowerKeys(supplied_fields)
    /\ operators = LowerKeys(supplied_operators)
    /\ pc = "idle"
    /\ NoCall
    /\ rng \in Seeds
    /\ NothingElse

\* One call of build_where, from entry to return or raise.
BuildWhere ==
    /\ pc = "idle"
    /\ \E w \in WhereInputs, p \in ParamsInputs :
          LET outcome == build_where(w, p) IN
          /\ where_' = w
          /\ params_in' = p
          /\ result' = outcome
          /\ caller_params' = CallerParamsAfter(p, outcome)
          /\ pc' = IF outcome.raised = "" THEN "returned" ELSE "raised"
    /\ UNCHANGED <<engineVars, orderVars, rng, concurrentVars, assemblerVars, serverVars>>

\* One call of build_order_by, from entry to return or raise.
BuildOrderBy ==
    /\ pc = "idle"
    /\ \E o \in OrderByInputs :
          LET outcome == build_order_by(o) IN
          /\ order_by_' = o
          /\ order_result' = outcome
          /\ pc' = IF outcome.raised = "" THEN "ordered" ELSE "order raised"
    /\ UNCHANGED <<engineVars, where_, params_in, caller_params, result, rng,
                   concurrentVars, assemblerVars,
                   serverVars>>

\* The caller is done with the clause, the params and the error.
\* The random source moves on between two calls.
Release ==
    /\ pc \in {"returned", "raised", "ordered", "order raised"}
    /\ pc' = "idle"
    /\ where_' = None
    /\ params_in' = NoParams
    /\ caller_params' = NoParams
    /\ result' = Return(<<>>, EmptyDict)
    /\ order_by_' = <<>>
    /\ order_result' = OrderReturn(<<>>)
    /\ rng' \in Seeds
    /\ UNCHANGED <<engineVars, concurrentVars, assemblerVars, serverVars>>

Next == BuildWhere \/ BuildOrderBy \/ Release

Spec == Init /\ [][Next]_vars

(***************************************************************************)
(* Notions the properties are stated with.                                 *)
(***************************************************************************)
Called == pc \in {"returned", "raised"}

\* The positions of the placeholders of a clause, and the keys they name.
PlaceholderPositions(clause) == {i \in 1..Len(clause) : clause[i].t = "param"}
PlaceholdersOf(clause) == {clause[i].key : i \in PlaceholderPositions(clause)}

\* A clause with the generated suffix of every placeholder erased.
WithoutSuffix(clause) ==
    [i \in 1..Len(clause) |->
        IF clause[i].t = "param"
        THEN [t |-> "param", name |-> clause[i].key.name]
        ELSE clause[i]]

\* The entries a call added to the params it was given.
AddedKeys == DOMAIN result.params \ DOMAIN OrEmpty(params_in)

IsDict(d) == d # None /\ DOMAIN d # {}

\* The names of the registry as they were supplied at start-up, lowercase.
RegisteredFields == {"name", "id", "tag"}
RegisteredOperators == {"equal"}

RECURSIVE ValueVariants(_)
RECURSIVE ForestVariants(_)

\* The sequences of rules that differ from rules in leaf values at most.
ForestVariants(rules) ==
    IF rules = <<>> THEN {<<>>}
    ELSE {<<h>> \o t : h \in ValueVariants(Head(rules)),
                       t \in ForestVariants(Tail(rules))}

\* The structures that differ from d in leaf values at most.
ValueVariants(d) ==
    IF "value" \in DOMAIN d
    THEN {[d EXCEPT !.value = v] : v \in LeafValues}
    ELSE IF "rules" \in DOMAIN d
    THEN {[d EXCEPT !.rules = f] : f \in ForestVariants(d.rules)}
    ELSE {d}

\* The texts of the values a client can put in a leaf.
ValueTexts == {v.v : v \in LeafValues}

(***************************************************************************)
(* C1..C10: the where-clause compiler.                                     *)
(***************************************************************************)

\* C1: the clause build_where returns does not depend on the leaf values:
\* no SQL text of it is the text of a client value, and every accepted tree
\* that differs from the compiled one in leaf values only compiles to the
\* same clause up to the placeholder suffixes.
C1_ClauseIndependentOfValues ==
    (pc = "returned" /\ IsDict(where_)) =>
        /\ \A i \in 1..Len(result.clause) :
              result.clause[i].t = "sql" => result.clause[i].s \notin ValueTexts
        /\ \A other \in ValueVariants(where_) :
              LET compiled == build_where(other, params_in)
              IN compiled.raised = "" =>
                    WithoutSuffix(compiled.clause) = WithoutSuffix(result.clause)

\* A tree with two leaves or more was compiled.
C1_Witness ==
    /\ pc = "returned"
    /\ IsDict(where_)
    /\ "rules" \in DOMAIN where_
    /\ Cardinality(PlaceholdersOf(result.clause)) >= 2
    /\ Cardinality({result.params[k] : k \in AddedKeys}) >= 2

\* C2 as the claim states it: after a successful call the placeholders of
\* the clause are exactly the keys of the returned params.
C2_PlaceholdersAreAllKeys ==
    pc = "returned" => PlaceholdersOf(result.clause) = DOMAIN result.params

\* C2, amended: after a successful call the placeholders of the clause are
\* exactly the keys the call added to the params it was given; the entries
\* the caller passed in stay in the returned params and no placeholder names
\* one of them.
C2_PlaceholdersAreAddedKeys ==
    pc = "returned" =>
        /\ PlaceholdersOf(result.clause) = AddedKeys
        /\ PlaceholdersOf(result.clause) \subseteq DOMAIN result.params
        /\ params_in # NoParams => DOMAIN params_in \subseteq DOMAIN result.params

\* A tree with two leaves was compiled into params the caller had filled.
C2_Witness ==
    /\ pc = "returned"
    /\ params_in # NoParams
    /\ DOMAIN params_in # {}
    /\ Cardinality(PlaceholdersOf(result.clause)) >= 2

\* C3: when build_where raises for an unknown field or operator, the dict
\* the caller passed as params holds what it held before the call.
C3_ParamsUntouchedOnError ==
    (pc = "raised" /\ result.raised \in {"Unknown field", "Unsupported operator"})
        => caller_params = params_in

\* C4: a simple rule on a registered field compiles to a clause with exactly
\* one placeholder, bound in the returned params to transform(value) when
\* the field has a transform and to the value otherwise.
C4_LeafBindsTransformedValue ==
    (pc = "returned" /\ IsDict(where_) /\ "field" \in DOMAIN where_) =>
        LET field == SuppliedFields[
                        CHOOSE n \in DOMAIN SuppliedFields :
                            Lower(n) = Lower(where_.field)]
        IN /\ Cardinality(PlaceholderPositions(result.clause)) = 1
           /\ \A k \in PlaceholdersOf(result.clause) :
                 /\ k \in DOMAIN result.params
                 /\ result.params[k] =
                       IF field.transform = "None" THEN where_.value
                       ELSE ApplyTransform(field.transform, where_.value)

\* A simple rule on a field whose transform changes the value was compiled.
C4_Witness ==
    /\ pc = "returned"
    /\ where_ \in TopLeaves
    /\ Lower(where_.field) = "tag"
    /\ \E k \in AddedKeys : result.params[k] # where_.value

\* C5: build_where(None, params) returns "1=1" and the entries of params,
\* and leaves the caller's dict as it was.
C5_NoneIsTrueClause ==
    (Called /\ where_ = None) =>
        /\ pc = "returned"
        /\ result.clause = <<Sql("1=1")>>
        /\ result.params = IF params_in = NoParams THEN EmptyDict ELSE params_in
        /\ caller_params = params_in

\* build_where(None, params) was called with params of two entries.
C5_Witness ==
    /\ pc = "returned"
    /\ where_ = None
    /\ params_in # NoParams
    /\ Cardinality(DOMAIN params_in) = 2

\* The kind of error of the spec that an error of the code stands for.
KindOf(raised) ==
    CASE raised = "Unknown field" -> "UnknownFieldError"
      [] raised = "Unsupported operator" -> "UnknownOperatorError"
      [] raised = "Unsupported condition" -> "UnsupportedConditionError"
      [] raised = "Invalid where clause structure" -> "MalformedFilterError"
      [] raised = "ValidationError" -> "MalformedFilterError"
      [] OTHER -> "none"

\* C6: a non-null structure with a `field` key is compiled as a simple rule,
\* one with a `condition` key and no `field` key as a complex rule, and
\* every other one raises MalformedFilterError and yields no clause.
C6_DispatchOnShape ==
    (Called /\ where_ # None) =>
        IF "field" \in DOMAIN where_
        THEN \/ /\ pc = "raised"
                /\ KindOf(result.raised) \in
                      {"MalformedFilterError", "UnknownOperatorError",
                       "UnknownFieldError"}
             \/ /\ pc = "returned"
                /\ Cardinality(PlaceholderPositions(result.clause)) = 1
                /\ Head(result.clause) # Sql("(")
        ELSE IF "condition" \in DOMAIN where_
        THEN \/ pc = "raised"
             \/ /\ pc = "returned"
                /\ result.clause # <<>> => Head(result.clause) = Sql("(")
        ELSE /\ pc = "raised"
             /\ KindOf(result.raised) = "MalformedFilterError"
             /\ result.clause = <<>>

RECURSIVE InvalidKinds(_)
\* The kinds of the invalid elements of a filter tree: a node with neither
\* a `field` nor a `condition` key or without the parts of its shape, an
\* unregistered operator or field, a condition that is not and/or.
InvalidKinds(d) ==
    IF "field" \in DOMAIN d
    THEN IF ~({"operator", "value"} \subseteq DOMAIN d /\ IsValue(d.value))
         THEN {"MalformedFilterError"}
         ELSE (IF Lower(d.operator) \in RegisteredOperators THEN {}
               ELSE {"UnknownOperatorError"})
              \cup (IF Lower(d.field) \in RegisteredFields THEN {}
                    ELSE {"UnknownFieldError"})
    ELSE IF "condition" \in DOMAIN d
    THEN IF "rules" \notin DOMAIN d THEN {"MalformedFilterError"}
         ELSE (IF Lower(d.condition) \in {"and", "or"} THEN {}
               ELSE {"UnsupportedConditionError"})
              \cup UNION {InvalidKinds(d.rules[i]) : i \in 1..Len(d.rules)}
    ELSE {"MalformedFilterError"}

\* C7: a filter tree with an invalid element anywhere makes build_where
\* raise, and the error that reaches the caller is the error of one of the
\* invalid elements.
C7_InvalidElementFailsCall ==
    (Called /\ where_ # None /\ InvalidKinds(where_) # {}) =>
        /\ pc = "raised"
        /\ KindOf(result.raised) \in InvalidKinds(where_)

RECURSIVE LeavesOf(_)
RECURSIVE LeavesOfRules(_)
\* The simple rules of a parsed rule tree, in the order of the tree.
LeavesOf(rule) ==
    IF "field" \in DOMAIN rule THEN <<rule>> ELSE LeavesOfRules(rule.rules)

LeavesOfRules(rules) ==
    IF rules = <<>> THEN <<>>
    ELSE LeavesOf(Head(rules)) \o LeavesOfRules(Tail(rules))

\* The placeholders of a clause, in the order of the clause.
PlaceholderSeq(clause) == SelectSeq(clause, LAMBDA token : token.t = "param")

\* The field of the registry a leaf names.
FieldOf(leaf) ==
    SuppliedFields[CHOOSE n \in DOMAIN SuppliedFields :
                      Lower(n) = Lower(leaf.field)]

\* The value a leaf is bound to: the leaf's value as it is, or passed
\* through the transform of the leaf's field when the field has one.
BoundValue(leaf, transformed) ==
    IF transformed /\ FieldOf(leaf).transform # "None"
    THEN ApplyTransform(FieldOf(leaf).transform, leaf.value)
    ELSE leaf.value

\* A complex rule with one child or more was given, all of its nodes rules.
ComplexRuleGiven ==
    /\ Called
    /\ IsDict(where_)
    /\ "field" \notin DOMAIN where_
    /\ "condition" \in DOMAIN where_
    /\ ValidComplexWhereRule(where_)
    /\ Len(where_.rules) >= 1

\* Every child of the given complex rule compiles when it is given alone.
ChildrenCompile ==
    \A i \in 1..Len(where_.rules) :
        build_where(ComplexWhereRule(where_).rules[i], NoParams).raised = ""

\* The clause "(c1) c (c2) c ... (cn)" of the given complex rule, without
\* the placeholder suffixes.
ExpectedComplexClause ==
    LET rule == ComplexWhereRule(where_)
        separator == IF Lower(rule.condition) = "and" THEN Sql(" and ")
                     ELSE Sql(" or ")
        wrapped(i) == <<Sql("(")>>
                      \o WithoutSuffix(build_where(rule.rules[i], NoParams).clause)
                      \o <<Sql(")")>>
        RECURSIVE joined(_)
        joined(i) == IF i = Len(rule.rules) THEN wrapped(i)
                     ELSE wrapped(i) \o <<separator>> \o joined(i + 1)
    IN joined(1)

\* The statement of C8, with the leaves bound to their values as given or
\* as transformed.
ComplexRuleCompiles(transformed) ==
    ComplexRuleGiven =>
        IF Lower(where_.condition) \in {"and", "or"}
        THEN ChildrenCompile =>
                LET leaves == LeavesOf(ComplexWhereRule(where_))
                    placeholders == PlaceholderSeq(result.clause)
                IN /\ pc = "returned"
                   /\ WithoutSuffix(result.clause) = ExpectedComplexClause
                   /\ Len(placeholders) = Len(leaves)
                   /\ Cardinality(PlaceholdersOf(result.clause)) = Len(leaves)
                   /\ \A j \in 1..Len(leaves) :
                         /\ placeholders[j].key \in AddedKeys
                         /\ result.params[placeholders[j].key] =
                               BoundValue(leaves[j], transformed)
        ELSE /\ pc = "raised"
             /\ KindOf(result.raised) = "UnsupportedConditionError"

\* C8 as the claim states it: a complex rule compiles to "(c1) c (c2) ..."
\* with c lowercased and the children in order, every leaf bound under a
\* placeholder of its own to the leaf's value; a condition that is not
\* and/or raises UnsupportedConditionError.
C8_LeavesBoundToTheirValues == ComplexRuleCompiles(FALSE)

\* C8, amended: as above, every leaf bound under a placeholder of its own to
\* the leaf's value passed through the transform of its field when the field
\* has one, and to the leaf's value otherwise.
C8_LeavesBoundToTransformedValues == ComplexRuleCompiles(TRUE)

\* A complex rule with an upper-case condition and two leaves was compiled,
\* one leaf on a field whose transform changes the value.
C8_Witness ==
    /\ ComplexRuleGiven
    /\ pc = "returned"
    /\ where_.condition = "OR"
    /\ Len(where_.rules) = 2
    /\ \E j \in 1..Len(LeavesOf(ComplexWhereRule(where_))) :
          LET leaf == LeavesOf(ComplexWhereRule(where_))[j]
          IN BoundValue(leaf, TRUE) # leaf.value

\* A complex rule with a supported condition and no `field` key was given.
SupportedComplexGiven ==
    /\ Called
    /\ IsDict(where_)
    /\ DOMAIN where_ = {"condition", "rules"}
    /\ Lower(where_.condition) \in {"and", "or"}

\* The call left the params as they were given.
NothingAdded ==
    /\ result.params = IF params_in = NoParams THEN EmptyDict ELSE params_in
    /\ caller_params = params_in

\* C9 as the claim states it: a complex rule with no rules compiles without
\* error to "()" and adds nothing to params.
C9_EmptyRulesGiveParentheses ==
    (SupportedComplexGiven /\ where_.rules = <<>>) =>
        /\ pc = "returned"
        /\ result.clause = <<Sql("("), Sql(")")>>
        /\ NothingAdded

\* C9, amended: a complex rule with no rules compiles without error to the
\* empty clause "" and adds nothing to params; it is as the child of another
\* complex rule that it gives "()", the parentheses being the parent's.
C9_EmptyRulesGiveEmptyClause ==
    /\ (SupportedComplexGiven /\ where_.rules = <<>>) =>
          /\ pc = "returned"
          /\ result.clause = <<>>
          /\ NothingAdded
    /\ (/\ SupportedComplexGiven
        /\ Len(where_.rules) = 1
        /\ DOMAIN where_.rules[1] = {"condition", "rules"}
        /\ Lower(where_.rules[1].condition) \in {"and", "or"}
        /\ where_.rules[1].rules = <<>>) =>
          /\ pc = "returned"
          /\ result.clause = <<Sql("("), Sql(")")>>
          /\ NothingAdded

\* A complex rule with no rules was compiled into params the caller filled.
C9_Witness ==
    /\ SupportedComplexGiven
    /\ where_.rules = <<>>
    /\ where_.condition = "OR"
    /\ pc = "returned"
    /\ params_in # NoParams
    /\ DOMAIN params_in # {}

RECURSIVE LowerNames(_)
\* The structure d with the field and the operator of every leaf written
\* in lowercase, as the registry holds them.
LowerNames(d) ==
    [k \in DOMAIN d |->
        IF k \in {"field", "operator"} THEN Lower(d[k])
        ELSE IF k = "rules"
        THEN [i \in 1..Len(d.rules) |-> LowerNames(d.rules[i])]
        ELSE d[k]]

\* C10: field and operator lookup is case-insensitive: a rule in any case
\* compiles as the rule written in the registry's case does, and a simple
\* rule on a registered field and operator, in any case, succeeds with the
\* field's declared definition and a placeholder named after the registered
\* field name.
C10_LookupIgnoresCase ==
    /\ (Called /\ IsDict(where_)) =>
          LET exact == build_where(LowerNames(where_), params_in)
          IN /\ result.raised = exact.raised
             /\ result.clause = exact.clause
             /\ result.params = exact.params
    /\ (/\ Called
        /\ where_ \in TopLeaves
        /\ Lower(where_.field) \in RegisteredFields
        /\ Lower(where_.operator) \in RegisteredOperators) =>
          /\ pc = "returned"
          /\ Head(result.clause) = Sql(FieldOf(where_).definition)
          /\ result.clause[2] = Sql(" = ")
          /\ Cardinality(PlaceholdersOf(result.clause)) = 1
          /\ \A k \in PlaceholdersOf(result.clause) :
                /\ k.name = FieldOf(where_).name
                /\ k \in DOMAIN result.params
                /\ result.params[k] = BoundValue(where_, TRUE)

\* A simple rule that spells the field and the operator in upper case was
\* compiled.
C10_Witness ==
    /\ pc = "returned"
    /\ where_ \in TopLeaves
    /\ where_.field = "NAME"
    /\ where_.operator = "EQUAL"
    /\ \E k \in DOMAIN result.params : k.name = "name" /\ k \in AddedKeys

(***************************************************************************)
(* C11..C20.                                                               *)
(***************************************************************************)

\* C12: the placeholder reference of a compiled simple rule is wrapped as
\* "cast(:<name> as <type>)" exactly when the cast of the field is set and is
\* the bare ":<name>" otherwise, and in both cases params binds the value
\* under <name>.
C12_CastWrapsPlaceholder ==
    (pc = "returned" /\ where_ \in TopLeaves) =>
        LET field == FieldOf(where_)
            reference == SubSeq(result.clause, 3, Len(result.clause))
        IN \E k \in AddedKeys :
              /\ AddedKeys = {k}
              /\ result.params[k] = BoundValue(where_, TRUE)
              /\ reference =
                    IF field.cast # "None"
                    THEN <<Sql("cast("), Placeholder(k), Sql(" as "),
                           Sql(field.cast), Sql(")")>>
                    ELSE <<Placeholder(k)>>

\* A simple rule on the field with cast uuid was compiled, and gave
\* "users.id = cast(:id_<suffix> as uuid)".
C12_Witness ==
    /\ pc = "returned"
    /\ where_ \in TopLeaves
    /\ Lower(where_.field) = "id"
    /\ Len(result.clause) = 7
    /\ result.clause[6] = Sql("uuid")

\* The given structure is a rule tree that build_where compiled.
TreeCompiled ==
    /\ pc = "returned"
    /\ IsDict(where_)
    /\ "field" \in DOMAIN where_ \/ "condition" \in DOMAIN where_

\* The leaves of the given rule tree, in the order of the tree.
GivenLeaves ==
    IF "field" \in DOMAIN where_ THEN <<SimpleWhereRule(where_)>>
    ELSE LeavesOf(ComplexWhereRule(where_))

\* C13: a compiled rule tree with n leaves adds exactly n distinct keys to
\* params, the key of every leaf named after the leaf's field and bound to
\* the leaf's own value, and every entry the caller passed in is kept as it
\* was.
C13_OnePlaceholderPerLeaf ==
    TreeCompiled =>
        LET placeholders == PlaceholderSeq(result.clause)
        IN /\ Len(placeholders) = Len(GivenLeaves)
           /\ Cardinality(AddedKeys) = Len(GivenLeaves)
           /\ \A j \in 1..Len(GivenLeaves) :
                 /\ placeholders[j].key \in AddedKeys
                 /\ placeholders[j].key.name = FieldOf(GivenLeaves[j]).name
                 /\ result.params[placeholders[j].key] =
                       BoundValue(GivenLeaves[j], TRUE)
           /\ params_in # NoParams =>
                 \A k \in DOMAIN params_in :
                    /\ k \in DOMAIN result.params
                    /\ result.params[k] = params_in[k]

\* A tree with two leaves on the same field and different values was
\* compiled into params that hold a key of that field already.
C13_Witness ==
    /\ TreeCompiled
    /\ Len(GivenLeaves) = 2
    /\ GivenLeaves[1].field = GivenLeaves[2].field
    /\ GivenLeaves[1].value # GivenLeaves[2].value
    /\ params_in # NoParams
    /\ \E k \in DOMAIN params_in : k.name = FieldOf(GivenLeaves[1]).name

OrderCalled == pc \in {"ordered", "order raised"}

\* What is wrong with a rule of an order-by list: the direction when it is
\* neither asc nor desc, else the field when it is not registered.
OrderDefect(order) ==
    IF "field" \notin DOMAIN order THEN "MalformedFilterError"
    ELSE IF "direction" \in DOMAIN order
            /\ Lower(order.direction) \notin {"asc", "desc"}
    THEN "UnsupportedDirectionError"
    ELSE IF Lower(order.field) \notin RegisteredFields
    THEN "UnknownFieldError"
    ELSE "none"

\* The kind of error of the spec that an error of build_order_by stands for.
OrderKindOf(raised) ==
    CASE raised = "Unknown field" -> "UnknownFieldError"
      [] raised = "Unsupported order by direction" -> "UnsupportedDirectionError"
      [] raised = "ValidationError" -> "MalformedFilterError"
      [] OTHER -> "none"

\* "<definition> <direction>" of one rule, the direction lowercased and asc
\* when the rule gives none.
ExpectedOrderTerm(order) ==
    <<Sql(FieldOf(order).definition), Sql(" "),
      Sql(IF "direction" \notin DOMAIN order THEN "asc"
          ELSE IF Lower(order.direction) = "desc" THEN "desc" ELSE "asc")>>

RECURSIVE ExpectedOrderBy(_)
\* The terms of the rules in the order of the list, joined by ", ".
ExpectedOrderBy(order_by) ==
    IF order_by = <<>> THEN <<>>
    ELSE IF Len(order_by) = 1 THEN ExpectedOrderTerm(order_by[1])
    ELSE ExpectedOrderTerm(order_by[1]) \o <<Sql(", ")>>
            \o ExpectedOrderBy(Tail(order_by))

\* C14: build_order_by on a list of valid rules returns the terms
\* "<definition> <direction>" of the rules in input order joined by ", ",
\* the direction lowercased and asc by default; the empty list gives the
\* empty string.
C14_OrderByText ==
    (OrderCalled /\ \A i \in 1..Len(order_by_) : OrderDefect(order_by_[i]) = "none")
        => /\ pc = "ordered"
           /\ order_result.clause = ExpectedOrderBy(order_by_)

\* [{"field": a, "direction": "DESC"}, {"field": b}] was compiled.
C14_Witness ==
    /\ pc = "ordered"
    /\ Len(order_by_) = 2
    /\ DOMAIN order_by_[1] = {"field", "direction"}
    /\ order_by_[1].direction = "DESC"
    /\ DOMAIN order_by_[2] = {"field"}
    /\ order_by_[1].field # order_by_[2].field
    /\ Len(order_result.clause) = 7

\* C15: build_order_by raises and returns no text when a rule of the list
\* is invalid; the error is that of the first invalid rule, the direction
\* error when the direction is unsupported (also when the field is unknown
\* too), else the field error.
C15_OrderByFailsAsAWhole ==
    LET invalid == {i \in 1..Len(order_by_) : OrderDefect(order_by_[i]) # "none"}
    IN (OrderCalled /\ invalid # {}) =>
          /\ pc = "order raised"
          /\ order_result.clause = <<>>
          /\ OrderKindOf(order_result.raised) =
                OrderDefect(order_by_[CHOOSE i \in invalid :
                                         \A j \in invalid : i <= j])

\* A valid rule was followed by a rule with an unsupported direction and an
\* unknown field.
C15_Witness ==
    /\ pc = "order raised"
    /\ Len(order_by_) = 2
    /\ OrderDefect(order_by_[1]) = "none"
    /\ "direction" \in DOMAIN order_by_[2]
    /\ order_by_[2].direction = "up"
    /\ order_by_[2].field = "nope"
    /\ order_result.raised = "Unsupported order by direction"

(***************************************************************************)
(* The construction of the engine from any mappings of the caller.         *)
(***************************************************************************)
\* The fields and the operators a caller declares.
DeclaredFields ==
    {Field("name", "users.name", "None", "None"),
     Field("name", "users.nickname", "None", "None"),
     Field("id", "users.id", "str", "uuid")}

DeclaredOperators == {"Equal", "NotEqual"}

RECURSIVE MappingsOfLen(_, _, _)
\* The dicts of n items with names of names and items of items: no name
\* occurs twice in a dict.
MappingsOfLen(n, names, items) ==
    IF n = 0 THEN {<<>>}
    ELSE {Append(mapping, Item(name, item)) :
             mapping \in MappingsOfLen(n - 1, names, items),
             name \in names, item \in items}
         \ {mapping \in [1..n -> [name : names, item : items]] :
               \E i, j \in 1..n : i # j /\ mapping[i].name = mapping[j].name}

FieldMappings ==
    UNION {MappingsOfLen(n, {"Name", "name", "id"}, DeclaredFields) :
             n \in 0..MaxSupplied}

OperatorMappings ==
    UNION {MappingsOfLen(n, {"Equal", "EQUAL"}, DeclaredOperators) :
             n \in 1..MaxSupplied}

RegistryInit ==
    /\ supplied_fields = <<>>
    /\ supplied_operators = <<>>
    /\ fields = <<>>
    /\ operators = <<>>
    /\ pc = "new"
    /\ NoCall
    /\ rng = 0
    /\ NothingElse

\* IQueryBuilder.__init__(fields, operators).
Construct ==
    /\ pc = "new"
    /\ \E fs \in FieldMappings, ops \in OperatorMappings :
          /\ supplied_fields' = fs
          /\ supplied_operators' = ops
          /\ fields' = LowerKeys(fs)
          /\ operators' = LowerKeys(ops)
    /\ pc' = "constructed"
    /\ UNCHANGED <<where_, params_in, caller_params, result, orderVars, rng,
                   concurrentVars, assemblerVars,
                   serverVars>>

\* The engine is dropped.
Discard ==
    /\ pc = "constructed"
    /\ supplied_fields' = <<>>
    /\ supplied_operators' = <<>>
    /\ fields' = <<>>
    /\ operators' = <<>>
    /\ pc' = "new"
    /\ UNCHANGED <<where_, params_in, caller_params, result, orderVars, rng,
                   concurrentVars, assemblerVars,
                   serverVars>>

RegistryNext == Construct \/ Discard

RegistrySpec == RegistryInit /\ [][RegistryNext]_vars

\* The spellings of a name that a client may use for it.
Spellings == {"Name", "name", "NAME", "id", "ID", "Equal", "EQUAL", "equal"}
CaseVariants(name) == {v \in Spellings : Lower(v) = Lower(name)}

\* Every key of the registry is lowercase, and every case variant of every
\* supplied name finds the item supplied under that name.
RegistryKeeps(registry, supplied) ==
    /\ \A k \in DOMAIN registry : Lower(k) = k
    /\ \A i \in 1..Len(supplied) :
          \A v \in CaseVariants(supplied[i].name) :
             /\ Lower(v) \in DOMAIN registry
             /\ registry[Lower(v)] = supplied[i].item

\* C11: after IQueryBuilder is constructed from any supplied mappings, the
\* keys of fields and operators are lowercase and the lookup of any case
\* variant of a supplied name gives the Field or operator supplied under
\* that name: no supplied definition is lost or replaced.
C11_NoSuppliedDefinitionLost ==
    pc = "constructed" =>
        /\ RegistryKeeps(fields, supplied_fields)
        /\ RegistryKeeps(operators, supplied_operators)

(***************************************************************************)
(* The QueryBuilder assembler of the PostgreSQL engine.  A dict is an      *)
(* object of the heap, named by its place in the heap; 0 is None.  An      *)
(* unset fragment is "None".                                               *)
(***************************************************************************)
\* A default dict made once and given to every call that passes none.
OrNewDict_SharedDefault(h, ref) ==
    IF ref # 0 /\ DOMAIN h[ref] # {}
    THEN [ref |-> ref, heap |-> h]
    ELSE [ref |-> 1, heap |-> h]

\* x or {} for a dict argument: the object given when it is truthy, else a
\* new empty dict.
OrNewDict(h, ref) ==
    IF ref # 0 /\ DOMAIN h[ref] # {}
    THEN [ref |-> ref, heap |-> h]
    ELSE [ref |-> Len(h) + 1, heap |-> Append(h, EmptyDict)]

\* QueryBuilder.__init__.
QueryBuilderInit(h, select_, from_, with_, where, group_by_, order_by, fields_map, params) ==
    LET fm == OrNewDict(h, fields_map)
        ps == OrNewDict(fm.heap, params)
    IN [heap |-> ps.heap,
        self |-> [with_ |-> with_, select_ |-> select_, from_ |-> from_,
                  where_ |-> where, group_by_ |-> group_by_,
                  order_by_ |-> order_by,
                  fields_map |-> fm.ref, params |-> ps.ref]]

\* A count() that keeps the order_by of the assembler it is called on.
count_KeepsOrderBy(h, self) ==
    QueryBuilderInit(h, "select count(*)", self.from_, self.with_, self.where_,
                     self.group_by_, self.order_by_, self.fields_map,
                     self.params)

\* QueryBuilder.count.
count(h, self) ==
    QueryBuilderInit(h, "select count(*)", self.from_, self.with_, self.where_,
                     self.group_by_, "None", self.fields_map, self.params)

\* QueryBuilder.build.
build(self) == [raised |-> "NotImplementedError", text |-> <<>>]

\* The dicts the caller holds before it makes an assembler: one it may pass
\* as fields_map, one it may pass as params.
CallerDicts ==
    {<<fm, ps>> :
        fm \in {EmptyDict, [name |-> Field("name", "users.name", "None", "None")]},
        ps \in {EmptyDict, Key("name", 1) :> StrValue("Alice")}}

Fragments(texts) == {"None"} \cup texts

AssemblerInit ==
    /\ supplied_fields = SuppliedFieldItems
    /\ supplied_operators = SuppliedOperatorItems
    /\ fields = LowerKeys(supplied_fields)
    /\ operators = LowerKeys(supplied_operators)
    /\ pc = "idle"
    /\ NoCall
    /\ rng = 0
    /\ calls = <<>>
    /\ heap \in CallerDicts
    /\ builders = <<>>
    /\ build_result = NoBuild
    /\ NoServer

\* The caller makes an assembler, with or without dicts of its own.
NewQueryBuilder ==
    /\ builders = <<>>
    /\ \E with_ \in Fragments({"with recent as (select 1)"}),
          where \in Fragments({"users.name = :name_1"}),
          group_by_ \in Fragments({"users.name"}),
          order_by \in Fragments({"users.name asc"}),
          fields_map \in {0, 1}, params \in {0, 2} :
          LET made == QueryBuilderInit(heap, "select users.*", "auth.user",
                                       with_, where, group_by_, order_by,
                                       fields_map, params)
          IN /\ builders' = <<made.self>>
             /\ heap' = made.heap
    /\ UNCHANGED <<engineVars, whereVars, orderVars, rng, calls, build_result, serverVars>>

\* The caller derives the count assembler from the one it made.
Count ==
    /\ Len(builders) = 1
    /\ LET made == count(heap, builders[1])
       IN /\ builders' = Append(builders, made.self)
          /\ heap' = made.heap
    /\ UNCHANGED <<engineVars, whereVars, orderVars, rng, calls, build_result, serverVars>>

\* The caller binds a value in the params of an assembler.
SetParam ==
    /\ \E b \in 1..Len(builders),
          k \in {Key("name", 1), Key("limit", 0)},
          v \in {StrValue("Bob"), IntValue("7")} :
          heap' = [heap EXCEPT ![builders[b].params] = (k :> v) @@ @]
    /\ UNCHANGED <<engineVars, whereVars, orderVars, rng, calls, builders,
                   build_result,
                   serverVars>>

\* The caller declares a field in the fields_map of an assembler.
SetField ==
    /\ \E b \in 1..Len(builders) :
          heap' = [heap EXCEPT ![builders[b].fields_map] =
                      [id |-> Field("id", "users.id", "str", "uuid")] @@ @]
    /\ UNCHANGED <<engineVars, whereVars, orderVars, rng, calls, builders,
                   build_result,
                   serverVars>>

\* The caller asks an assembler for its SQL text.
Build ==
    /\ build_result = NoBuild
    /\ NoServer
    /\ \E b \in 1..Len(builders) :
          build_result' = [of |-> b] @@ build(builders[b])
    /\ UNCHANGED <<engineVars, whereVars, orderVars, rng, calls, heap, builders, serverVars>>

AssemblerNext == NewQueryBuilder \/ Count \/ SetParam \/ SetField \/ Build

AssemblerSpec == AssemblerInit /\ [][AssemblerNext]_vars

\* The fragments of an assembler, without its dicts.
FragmentsOf(self) ==
    <<self.with_, self.select_, self.from_, self.where_, self.group_by_,
      self.order_by_>>

\* C18: count() returns a new assembler with the from, with, where and
\* group_by of the assembler it was called on, the select "select count(*)"
\* and no order_by, and leaves every fragment of the original as it was.
C18_CountDerives ==
    [][(Len(builders) = 1 /\ Len(builders') = 2) =>
          /\ FragmentsOf(builders'[1]) = FragmentsOf(builders[1])
          /\ builders'[2].select_ = "select count(*)"
          /\ builders'[2].order_by_ = "None"
          /\ builders'[2].from_ = builders[1].from_
          /\ builders'[2].with_ = builders[1].with_
          /\ builders'[2].where_ = builders[1].where_
          /\ builders'[2].group_by_ = builders[1].group_by_]_vars

C18_Witness ==
    /\ Len(builders) = 2
    /\ \A i \in 1..6 : FragmentsOf(builders[1])[i] # "None"

\* C19: after count() derived an assembler from another, a step that adds or
\* changes an entry of the params (or of the fields_map) of one of the two
\* leaves the params (the fields_map) seen through the other as they were.
C19_NoSharedDicts ==
    [][(Len(builders) = 2 /\ builders' = builders) =>
          \A b \in 1..2 :
             /\ heap'[builders[b].params] # heap[builders[b].params] =>
                   heap'[builders[3 - b].params] = heap[builders[3 - b].params]
             /\ heap'[builders[b].fields_map] # heap[builders[b].fields_map] =>
                   heap'[builders[3 - b].fields_map] =
                      heap[builders[3 - b].fields_map]]_vars

\* The text of the fragments that are set, in the order WITH, SELECT, FROM,
\* WHERE, GROUP BY, ORDER BY.
PresentFragments(self) ==
    SelectSeq(FragmentsOf(self), LAMBDA fragment : fragment # "None")

\* C20: build() returns the fragments that are set, in the fixed order, and
\* nothing for a fragment that is unset, for every combination of set and
\* unset fragments.
C20_BuildConcatenates ==
    build_result # NoBuild =>
        /\ build_result.raised = ""
        /\ build_result.text = PresentFragments(builders[build_result.of])

(***************************************************************************)
(* Concurrent calls on one IQueryBuilder.  Each thread runs one call of    *)
(* build_where or build_order_by; a step of a thread is one rule entered   *)
(* (one activation of build_where, one pass of the loop of build_order_by) *)
(* with the returns it leads to, and the threads interleave between steps. *)
(* The dict the caller of thread p holds is object p of the heap.          *)
(***************************************************************************)
\* The dict each caller holds.
OwnDict == Key("tenant", 0) :> StrValue("acme")

ConcurrentWhereInputs ==
    {None,
     Complex("and", <<Leaf("name", "equal", StrValue("Alice")),
                      Leaf("NAME", "Equal", IntValue("7"))>>),
     Complex("OR", <<Complex("and", <<Leaf("ID", "equal", StrValue("Alice"))>>),
                     Leaf("nope", "equal", StrValue("Alice"))>>)}

ConcurrentOrderByInputs ==
    {<<[field |-> "name", direction |-> "DESC"], [field |-> "ID"]>>,
     <<[field |-> "name"], [field |-> "nope", direction |-> "up"]>>}

\* The calls a thread may make: build_where with the caller's dict or with
\* no params, and build_order_by.
CallChoices ==
    {[kind |-> "where", where |-> w, order_by |-> <<>>, passes |-> b] :
        w \in ConcurrentWhereInputs, b \in BOOLEAN}
    \cup {[kind |-> "order_by", where |-> None, order_by |-> o, passes |-> FALSE] :
             o \in ConcurrentOrderByInputs}

\* A call that has not run its first statement.
NewCall(p, choice) ==
    [kind |-> choice.kind, where |-> choice.where, order_by |-> choice.order_by,
     params_arg |-> IF choice.passes THEN p ELSE 0,
     status |-> "called", params |-> 0, stack |-> <<>>, activations |-> 0,
     outcome |-> Return(<<>>, EmptyDict)]

ConcurrentInit ==
    /\ supplied_fields = SuppliedFieldItems
    /\ supplied_operators = SuppliedOperatorItems
    /\ fields = LowerKeys(supplied_fields)
    /\ operators = LowerKeys(supplied_operators)
    /\ pc = "idle"
    /\ NoCall
    /\ rng \in Seeds
    /\ \E choice \in [1..NumCalls -> CallChoices] :
          calls = [p \in 1..NumCalls |-> NewCall(p, choice[p])]
    /\ heap = [p \in 1..NumCalls |-> OwnDict]
    /\ builders = <<>>
    /\ build_result = NoBuild
    /\ NoServer

\* build_where reaches the loop over rule.rules with this structure.
EntersLoop(where) ==
    /\ where # None
    /\ DOMAIN where # {}
    /\ "field" \notin DOMAIN where
    /\ "condition" \in DOMAIN where
    /\ ValidComplexWhereRule(where)
    /\ Lower(ComplexWhereRule(where).condition) \in Conditions
    /\ ComplexWhereRule(where).rules # <<>>

RECURSIVE Unwind_FirstRuleOnly(_, _)
\* A loop that ends after its first rule.
Unwind_FirstRuleOnly(stack, ret) ==
    IF stack = <<>> THEN [stack |-> <<>>, done |-> TRUE, ret |-> ret]
    ELSE LET top == stack[Len(stack)]
             rest == SubSeq(stack, 1, Len(stack) - 1)
             compiled_rules ==
                 Append(top.compiled_rules,
                        <<Sql("(")>> \o ret.clause \o <<Sql(")")>>)
         IN IF ret.raised # "" THEN Unwind_FirstRuleOnly(rest, ret)
            ELSE Unwind_FirstRuleOnly(rest,
                        Return(Join(ConditionSeparator(top.rule.condition),
                                    compiled_rules),
                               ret.params))

RECURSIVE Unwind(_, _)
\* An activation of build_where has ended with ret: the loop of the caller
\* takes the clause and goes on to its next rule, or ends and returns in its
\* turn; an error leaves every loop.
Unwind(stack, ret) ==
    IF stack = <<>> THEN [stack |-> <<>>, done |-> TRUE, ret |-> ret]
    ELSE LET top == stack[Len(stack)]
             rest == SubSeq(stack, 1, Len(stack) - 1)
             compiled_rules ==
                 Append(top.compiled_rules,
                        <<Sql("(")>> \o ret.clause \o <<Sql(")")>>)
         IN IF ret.raised # "" THEN Unwind(rest, ret)
            ELSE IF top.i = Len(top.rule.rules)
            THEN Unwind(rest,
                        Return(Join(ConditionSeparator(top.rule.condition),
                                    compiled_rules),
                               ret.params))
            ELSE [stack |-> Append(rest, [top EXCEPT !.i = @ + 1,
                                            !.compiled_rules = compiled_rules]),
                  done |-> FALSE, ret |-> ret]

\* One activation of build_where(where, params) of a thread whose loops
\* under way are stack: params is params or {}; a complex rule opens a loop,
\* any other structure is answered at once.
EnterRule(h, where, ref, stack) ==
    LET own == OrNewDict(h, ref)
    IN IF EntersLoop(where)
       THEN [heap |-> own.heap, params |-> own.ref, done |-> FALSE,
             stack |-> Append(stack, [rule |-> ComplexWhereRule(where), i |-> 1,
                                      compiled_rules |-> <<>>]),
             ret |-> Return(<<>>, EmptyDict)]
       ELSE LET ret == CHOOSE r \in {build_where(where, own.heap[own.ref])} : TRUE
                unwound == CHOOSE u \in {Unwind(stack, ret)} : TRUE
            IN [heap |-> [own.heap EXCEPT ![own.ref] = ret.params],
                params |-> own.ref, done |-> unwound.done,
                stack |-> unwound.stack, ret |-> unwound.ret]

\* A thread in build_where enters its next rule.
StepWhere(p) ==
    /\ calls[p].kind = "where"
    /\ calls[p].status \in {"called", "running"}
    /\ \E c \in {calls[p]} :
       \E entered \in
             {IF c.status = "called"
              THEN EnterRule(heap, c.where, c.params_arg, <<>>)
              ELSE EnterRule(heap, c.stack[Len(c.stack)].rule.rules[
                                      c.stack[Len(c.stack)].i],
                             c.params, c.stack)} :
          /\ heap' = entered.heap
          /\ calls' = [calls EXCEPT ![p] =
                [c EXCEPT !.params = entered.params,
                          !.activations = @ + 1,
                          !.stack = entered.stack,
                          !.status = IF ~entered.done THEN "running"
                                     ELSE IF entered.ret.raised # "" THEN "raised"
                                     ELSE "returned",
                          !.outcome = IF ~entered.done THEN @
                                      ELSE [entered.ret EXCEPT !.params =
                                               entered.heap[entered.params]]]]
    /\ rng' \in Seeds
    /\ UNCHANGED <<engineVars, whereVars, orderVars, assemblerVars, serverVars>>

\* A thread in build_order_by makes one pass of the loop, or returns from an
\* empty list.
StepOrderBy(p) ==
    /\ calls[p].kind = "order_by"
    /\ calls[p].status \in {"called", "running"}
    /\ LET c == calls[p]
           i == IF c.status = "called" THEN 1 ELSE c.stack[1].i
           order_by_clauses == IF c.status = "called" THEN <<>>
                               ELSE c.stack[1].compiled_rules
           looped == IF i > Len(c.order_by) THEN OrderReturn(<<>>)
                     ELSE order_by_rule(c.order_by[i])
           appended == Append(order_by_clauses, looped.clause)
       IN calls' = [calls EXCEPT ![p] =
             IF i > Len(c.order_by)
             THEN [c EXCEPT !.status = "returned",
                            !.outcome = Return(<<>>, EmptyDict)]
             ELSE IF looped.raised # ""
             THEN [c EXCEPT !.status = "raised", !.stack = <<>>,
                            !.outcome = Raise(looped.raised, EmptyDict)]
             ELSE IF i = Len(c.order_by)
             THEN [c EXCEPT !.status = "returned", !.stack = <<>>,
                            !.outcome = Return(Join(Sql(", "), appended),
                                               EmptyDict)]
             ELSE [c EXCEPT !.status = "running",
                            !.stack = <<[rule |-> [rules |-> c.order_by],
                                         i |-> i + 1,
                                         compiled_rules |-> appended]>>]]
    /\ rng' \in Seeds
    /\ UNCHANGED <<engineVars, whereVars, orderVars, heap, assemblerVars, serverVars>>

ConcurrentNext ==
    \/ \E p \in 1..NumCalls : StepWhere(p)
    \/ \E p \in 1..NumCalls : StepOrderBy(p)

ConcurrentSpec == ConcurrentInit /\ [][ConcurrentNext]_vars

\* What a call gave, with the generated suffixes left out: the error, the
\* clause with every placeholder replaced by the name and the value it is
\* bound to, whether the placeholders differ from each other, and how many
\* keys of params bind each name to each value.
Shape(outcome) ==
    [raised |-> outcome.raised,
     clause |-> [i \in 1..Len(outcome.clause) |->
                    IF outcome.clause[i].t # "param" THEN outcome.clause[i]
                    ELSE [t |-> "param", name |-> outcome.clause[i].key.name,
                          bound |-> outcome.clause[i].key \in DOMAIN outcome.params,
                          value |-> IF outcome.clause[i].key \in DOMAIN outcome.params
                                    THEN outcome.params[outcome.clause[i].key]
                                    ELSE NoneValue]],
     distinct |-> Cardinality(PlaceholdersOf(outcome.clause))
                     = Len(PlaceholderSeq(outcome.clause)),
     bindings |-> [b \in {<<k.name, outcome.params[k]>> : k \in DOMAIN outcome.params} |->
                     Cardinality({k \in DOMAIN outcome.params :
                                     <<k.name, outcome.params[k]>> = b})]]

\* The call of thread p run alone.
Alone(p) ==
    IF calls[p].kind = "where"
    THEN build_where(calls[p].where,
                     IF calls[p].params_arg = 0 THEN NoParams ELSE OwnDict)
    ELSE LET ordered == build_order_by(calls[p].order_by)
         IN [raised |-> ordered.raised, clause |-> ordered.clause,
             params |-> EmptyDict]

Finished(p) == calls[p].status \in {"returned", "raised"}

\* C16: whatever the interleaving, a call that has ended gave the clause (up
\* to the placeholder suffixes) and the params bindings it gives when run
\* alone, the dict of its caller holds what the call run alone leaves in it,
\* the dict of every caller whose call has not begun is as it was, and the
\* fields and operators of the engine are as constructed.
C16_CallsDoNotInterfere ==
    /\ fields = LowerKeys(supplied_fields)
    /\ operators = LowerKeys(supplied_operators)
    /\ \A p \in DOMAIN calls :
          /\ calls[p].status = "called" => heap[p] = OwnDict
          /\ Finished(p) =>
                /\ Shape(calls[p].outcome) = Shape(Alone(p))
                /\ Shape(Return(<<>>, heap[p])) =
                      Shape(Return(<<>>, IF calls[p].params_arg = 0 THEN OwnDict
                                         ELSE Alone(p).params))

\* Two calls of build_where have ended: one without params returned a clause
\* of two leaves, one with the dict of its caller raised after it wrote to it.
C16_Witness ==
    /\ Len(calls) >= 2
    /\ \A p \in 1..2 : calls[p].kind = "where" /\ Finished(p)
    /\ calls[1].params_arg = 0 /\ calls[2].params_arg = 2
    /\ calls[1].outcome.raised = "" /\ Len(calls[1].outcome.clause) > 5
    /\ calls[2].outcome.raised # "" /\ DOMAIN calls[2].outcome.params # DOMAIN OwnDict
    /\ calls[1].params > NumCalls /\ DOMAIN heap[calls[1].params] # {}

\* C17: two compilations of the same rule, each with no params of its own,
\* gave the same clause once the suffixes are left out, with the placeholders
\* at the same places bound to equal values, and params maps with the same
\* bindings.
C17_SameRuleSameShape ==
    \A p, q \in DOMAIN calls :
        (/\ Finished(p) /\ Finished(q)
         /\ calls[p].kind = "where" /\ calls[q].kind = "where"
         /\ calls[p].where = calls[q].where
         /\ calls[p].params_arg = 0 /\ calls[q].params_arg = 0)
        => Shape(calls[p].outcome) = Shape(calls[q].outcome)

\* The same rule with two leaves was compiled twice and the two compilations
\* drew different suffixes.
C17_Witness ==
    /\ Len(calls) >= 2
    /\ Finished(1) /\ Finished(2)
    /\ calls[1].kind = "where" /\ calls[1].where = calls[2].where
    /\ calls[1].params_arg = 0 /\ calls[2].params_arg = 0
    /\ Len(PlaceholderSeq(calls[1].outcome.clause)) = 2
    /\ PlaceholdersOf(calls[1].outcome.clause)
          # PlaceholdersOf(calls[2].outcome.clause)

(***************************************************************************)
(* C21..C30.                                                               *)
(***************************************************************************)
\* build_where was called with a structure that parses as a SimpleWhereRule.
SimpleRuleGiven ==
    /\ Called
    /\ IsDict(where_)
    /\ "field" \in DOMAIN where_
    /\ ValidSimpleWhereRule(where_)

\* C24: for a simple rule, an unregistered operator raises the operator
\* error, a registered operator with an unregistered field raises the field
\* error, both unknown raise the operator error, and in each of these cases
\* params got no entry; with both registered the rule is compiled once: the
\* call returns and params got exactly one entry.
C24_LookupsBeforeCompile ==
    SimpleRuleGiven =>
        LET operator_known == Lower(where_.operator) \in RegisteredOperators
            field_known == Lower(where_.field) \in RegisteredFields
        IN /\ ~operator_known =>
                 result.raised = "Unsupported operator" /\ AddedKeys = {}
           /\ (operator_known /\ ~field_known) =>
                 result.raised = "Unknown field" /\ AddedKeys = {}
           /\ (operator_known /\ field_known) =>
                 result.raised = "" /\ Cardinality(AddedKeys) = 1

\* A simple rule with an unregistered operator and an unregistered field was
\* given together with params that hold entries.
C24_Witness ==
    /\ SimpleRuleGiven
    /\ Lower(where_.operator) \notin RegisteredOperators
    /\ Lower(where_.field) \notin RegisteredFields
    /\ params_in # NoParams /\ DOMAIN params_in # {}
    /\ result.raised # ""

\* build_where was called with a structure it takes for a complex rule, with
\* a condition it supports.
ComplexRuleWithChildren ==
    /\ Called
    /\ IsDict(where_)
    /\ "field" \notin DOMAIN where_
    /\ {"condition", "rules"} \subseteq DOMAIN where_
    /\ Lower(where_.condition) \in Conditions
    /\ where_.rules # <<>>

\* What build_where gives for the i-th child when the child is the whole
\* input.
ChildAtTopLevel(i) == build_where(where_.rules[i], EmptyDict)

\* C25: every child of a complex rule is compiled as build_where compiles it
\* at the top level: when every child compiles at the top level, the clause
\* is the join of those clauses in parentheses (suffixes left out); when some
\* child fails at the top level, the call fails with the error of such a
\* child.
C25_ChildCompiledAsTopLevel ==
    ComplexRuleWithChildren =>
        LET places == 1..Len(where_.rules)
            failing == {i \in places : ChildAtTopLevel(i).raised # ""}
        IN IF failing = {}
           THEN /\ result.raised = ""
                /\ WithoutSuffix(result.clause) =
                      WithoutSuffix(
                         Join(ConditionSeparator(where_.condition),
                              [i \in places |->
                                  <<Sql("(")>> \o ChildAtTopLevel(i).clause
                                     \o <<Sql(")")>>]))
           ELSE result.raised \in {ChildAtTopLevel(i).raised : i \in failing}

\* The texts the server declared or the code spells out: the definitions of
\* the supplied fields, asc, desc, and the separators.
ServerTexts ==
    {supplied_fields[i].item.definition : i \in 1..Len(supplied_fields)}
    \cup {"asc", "desc", " ", ", "}

\* The field and direction strings of the client's rules.
ClientTexts ==
    UNION {{order_by_[i][k] : k \in DOMAIN order_by_[i]} :
              i \in 1..Len(order_by_)}

\* C26: every piece of the text build_order_by returns is the definition of
\* a declared field, asc, desc, or a separator, so a string of the client
\* that is none of these is not in the text; a call that raises returns no
\* text.
C26_OrderByServerTextOnly ==
    OrderCalled =>
        /\ \A i \in 1..Len(order_result.clause) :
              /\ order_result.clause[i].t = "sql"
              /\ order_result.clause[i].s \in ServerTexts
              /\ order_result.clause[i].s \in ClientTexts =>
                    order_result.clause[i].s \in {"asc", "desc"}
        /\ pc = "order raised" => order_result.clause = <<>>

\* A list whose field and direction are spelt in ways the server never
\* declared was compiled.
C26_Witness ==
    /\ pc = "ordered"
    /\ Len(order_by_) = 2
    /\ \E i \in 1..2 :
          /\ DOMAIN order_by_[i] = {"field", "direction"}
          /\ order_by_[i].field = "ID"
          /\ order_by_[i].direction = "DESC"

(***************************************************************************)
(* One call of build_where followed activation by activation.              *)
(***************************************************************************)
\* Rule trees up to three rules deep and three rules wide, well formed and
\* not, and the two ways of giving no filter.
TerminationInputs ==
    LET good == Leaf("name", "equal", StrValue("Alice"))
        with_cast == Leaf("ID", "Equal", StrValue("Alice"))
        bad == Leaf("nope", "equal", StrValue("Alice"))
    IN {None, EmptyDict, good, bad,
        Complex("and", <<>>),
        Complex("and", <<good, with_cast, good>>),
        Complex("OR", <<Complex("and", <<Complex("or", <<good>>), with_cast>>),
                        good>>),
        Complex("and", <<good, bad, good>>),
        Complex("xor", <<good>>),
        Complex("and", <<Complex("and", <<good, bad>>), good>>),
        Complex("and", <<Complex("or", <<>>), Complex("or", <<>>)>>),
        [condition |-> "and", rules |-> <<[rules |-> <<>>], good>>]}

TerminationInit ==
    /\ supplied_fields = SuppliedFieldItems
    /\ supplied_operators = SuppliedOperatorItems
    /\ fields = LowerKeys(supplied_fields)
    /\ operators = LowerKeys(supplied_operators)
    /\ pc = "idle"
    /\ NoCall
    /\ rng \in Seeds
    /\ calls = <<>>
    /\ heap = <<OwnDict>>
    /\ builders = <<>>
    /\ build_result = NoBuild
    /\ NoServer

\* The caller calls build_where, with its dict or with no params.
CallBuildWhere ==
    /\ calls = <<>>
    /\ \E w \in TerminationInputs, b \in BOOLEAN :
          calls' = <<NewCall(1, [kind |-> "where", where |-> w,
                                 order_by |-> <<>>, passes |-> b])>>
    /\ UNCHANGED <<engineVars, whereVars, orderVars, rng, heap, assemblerVars, serverVars>>

\* The call enters its next rule.
EnterNextRule == calls # <<>> /\ StepWhere(1)

TerminationNext == CallBuildWhere \/ EnterNextRule

\* The thread that runs the call is scheduled as long as it has a step to
\* take.
TerminationSpec ==
    TerminationInit /\ [][TerminationNext]_vars /\ WF_vars(EnterNextRule)

RECURSIVE NodeCount(_)
RECURSIVE ForestNodeCount(_)
\* The number of rules of a rule tree: the rule and the rules under it.
NodeCount(where) ==
    IF IsDict(where) /\ "field" \notin DOMAIN where /\ "rules" \in DOMAIN where
    THEN 1 + ForestNodeCount(where.rules)
    ELSE 1

ForestNodeCount(rules) ==
    IF rules = <<>> THEN 0
    ELSE NodeCount(Head(rules)) + ForestNodeCount(Tail(rules))

\* C27: build_where on a rule tree comes to its end, by a return or by a
\* raise; it never enters more rules than the tree has, and when it returns
\* it has entered as many rules as the tree has.
C27_BuildWhereTerminates ==
    /\ [](calls # <<>> =>
            /\ calls[1].activations <= NodeCount(calls[1].where)
            /\ calls[1].status = "returned" =>
                  calls[1].activations = NodeCount(calls[1].where)
            /\ calls[1].status \in {"called", "running"} =>
                  calls[1].outcome = Return(<<>>, EmptyDict))
    /\ (calls # <<>>) ~> (calls # <<>> /\ Finished(1))

\* A tree of six rules, three rules deep, was compiled to its end.
C27_Witness ==
    /\ calls # <<>>
    /\ calls[1].status = "returned"
    /\ calls[1].activations = 6
    /\ "rules" \in DOMAIN calls[1].where.rules[1]
    /\ "rules" \in DOMAIN calls[1].where.rules[1].rules[1]

(***************************************************************************)
(* get_filters.  The text of the query parameter is the sequence of its    *)
(* JSON tokens: the punctuation, "str" for a string, "num" for a number,   *)
(* "null".  A parsed value is known by its Python type.                    *)
(***************************************************************************)
JsonTokens == {"{", "}", "[", "]", ":", ",", "str", "num", "null"}

\* The parameter is not in the query string: filters is None.
Absent == <<"absent">>

JsonFail == [ok |-> FALSE, value |-> [ty |-> "none"], rest |-> <<>>]
JsonValue(ty, rest) == [ok |-> TRUE, value |-> [ty |-> ty], rest |-> rest]

RECURSIVE ParseValue(_)
RECURSIVE ParseElements(_)
RECURSIVE ParseMembers(_)

\* The elements of an array after "[" or ",", up to "]".
ParseElements(text) ==
    LET element == ParseValue(text)
    IN IF ~element.ok \/ element.rest = <<>> THEN JsonFail
       ELSE IF Head(element.rest) = "]"
       THEN JsonValue("list", Tail(element.rest))
       ELSE IF Head(element.rest) = ","
       THEN ParseElements(Tail(element.rest))
       ELSE JsonFail

\* The members of an object after "{" or ",", up to "}".
ParseMembers(text) ==
    IF Len(text) < 2 \/ text[1] # "str" \/ text[2] # ":" THEN JsonFail
    ELSE LET member == ParseValue(SubSeq(text, 3, Len(text)))
         IN IF ~member.ok \/ member.rest = <<>> THEN JsonFail
            ELSE IF Head(member.rest) = "}"
            THEN JsonValue("dict", Tail(member.rest))
            ELSE IF Head(member.rest) = ","
            THEN ParseMembers(Tail(member.rest))
            ELSE JsonFail

\* One JSON value at the head of the text.
ParseValue(text) ==
    IF text = <<>> THEN JsonFail
    ELSE CASE Head(text) = "str" -> JsonValue("str", Tail(text))
           [] Head(text) = "num" -> JsonValue("int", Tail(text))
           [] Head(text) = "null" -> JsonValue("none", Tail(text))
           [] Head(text) = "[" ->
                IF Len(text) > 1 /\ text[2] = "]"
                THEN JsonValue("list", SubSeq(text, 3, Len(text)))
                ELSE ParseElements(Tail(text))
           [] Head(text) = "{" ->
                IF Len(text) > 1 /\ text[2] = "}"
                THEN JsonValue("dict", SubSeq(text, 3, Len(text)))
                ELSE ParseMembers(Tail(text))
           [] OTHER -> JsonFail

\* json.loads: the value of a text that is one JSON value and nothing more,
\* JSONDecodeError for any other text.
json_loads(text) ==
    LET parsed == ParseValue(text)
    IN IF parsed.ok /\ parsed.rest = <<>>
       THEN [raised |-> "", value |-> parsed.value]
       ELSE [raised |-> "JSONDecodeError", value |-> [ty |-> "none"]]

\* ApiError(status_code, error) with an UnprocessableContentErrorSchema.
UnprocessableContent(request_id) ==
    [raised |-> "ApiError", value |-> [ty |-> "none"], status_code |-> 422,
     error |-> [request_id |-> request_id, code |-> "UNPROCESSABLE_CONTENT_422"]]

\* get_filters(request_id, filters).
get_filters(request_id, filters) ==
    IF filters # Absent
    THEN LET loaded == json_loads(filters)
         IN IF loaded.raised = "" THEN [raised |-> "", value |-> loaded.value]
            ELSE UnprocessableContent(request_id)
    ELSE NoFilters

RECURSIVE TextsOfLen(_)
TextsOfLen(n) ==
    IF n = 0 THEN {<<>>}
    ELSE {Append(text, token) : text \in TextsOfLen(n - 1), token \in JsonTokens}

\* The values of the query parameter: absent, every short text, and some
\* longer ones: objects with members, an object never closed, an object with
\* more text after it.
FiltersInputs ==
    {Absent}
    \cup UNION {TextsOfLen(n) : n \in 0..MaxTokens}
    \cup {<<"{", "str", ":", "str", "}">>,
          <<"{", "str", ":", "str", ",", "str", ":", "[", "num", "]", "}">>,
          <<"{", "str", ":", "{", "str", ":", "null", "}", "}">>,
          <<"[", "{", "str", ":", "num", "}", "]">>,
          <<"{", "str", ":", "str">>,
          <<"{", "str", ":", "str", "}", "}">>}

\* init_request_id gives each request an id of its own.
RequestIds == {1, 2}

FiltersInit ==
    /\ supplied_fields = SuppliedFieldItems
    /\ supplied_operators = SuppliedOperatorItems
    /\ fields = LowerKeys(supplied_fields)
    /\ operators = LowerKeys(supplied_operators)
    /\ pc = "idle"
    /\ NoCall
    /\ rng = 0
    /\ NothingElse

\* FastAPI resolves the dependency get_filters for a request.
GetFilters ==
    /\ pc = "idle"
    /\ \E request_id \in RequestIds, filters \in FiltersInputs :
          LET outcome == get_filters(request_id, filters) IN
          /\ query' = [request_id |-> request_id, filters |-> filters]
          /\ filters_result' = outcome
          /\ pc' = IF outcome.raised = "" THEN "filtered" ELSE "unprocessable"
    /\ UNCHANGED <<engineVars, where_, params_in, caller_params, result,
                   orderVars, rng, concurrentVars, assemblerVars, users, requests>>

\* The request is over.
EndOfRequest ==
    /\ pc \in {"filtered", "unprocessable"}
    /\ pc' = "idle"
    /\ query' = NoQuery
    /\ filters_result' = NoFilters
    /\ UNCHANGED <<engineVars, where_, params_in, caller_params, result,
                   orderVars, rng, concurrentVars, assemblerVars, users, requests>>

FiltersNext == GetFilters \/ EndOfRequest

FiltersSpec == FiltersInit /\ [][FiltersNext]_vars

\* C30: get_filters returns None when the parameter is absent, a dictionary
\* when it is a valid JSON text, and raises ApiError with status 422, code
\* UNPROCESSABLE_CONTENT_422 and the request id when it is not valid JSON; what
\* it returns is None or a dictionary.
C30_FiltersNoneOrDict ==
    pc \in {"filtered", "unprocessable"} =>
        /\ query.filters = Absent => filters_result = NoFilters
        /\ (query.filters # Absent /\ json_loads(query.filters).raised = "") =>
              /\ filters_result.raised = ""
              /\ filters_result.value.ty = "dict"
        /\ (query.filters # Absent /\ json_loads(query.filters).raised # "") =>
              /\ filters_result.raised = "ApiError"
              /\ filters_result.status_code = 422
              /\ filters_result.error.code = "UNPROCESSABLE_CONTENT_422"
              /\ filters_result.error.request_id = query.request_id
        /\ filters_result.raised = "" =>
              filters_result.value.ty \in {"none", "dict"}

(***************************************************************************)
(* The users endpoints.  users holds the committed rows of auth.user, the  *)
(* email of each id, and "deleted" for an id whose row was deleted, so     *)
(* that no id is issued twice.  One request is followed from the session   *)
(* middleware to its response; the other requests are seen through what    *)
(* they commit.  A statement sees the committed rows and the writes of its *)
(* own transaction.                                                        *)
(***************************************************************************)
Emails == {"a@tmp.com", "b@tmp.com"}

\* None for a User.
NoUser == [id |-> 0, email |-> "None"]
NoError == [code |-> "", detail |-> <<>>]

\* The rows a statement of a transaction with the writes tx sees.
View(committed, tx) ==
    LET rows == tx @@ committed
    IN [id \in {i \in DOMAIN rows : rows[i] # "deleted"} |-> rows[id]]

\* A request as the session middleware receives it:
\* request.state.main_async_db_session = None.
NewRequest(method, user_id, email) ==
    [method |-> method, user_id |-> user_id, email |-> email, at |-> "received",
     session |-> 0, created |-> 0, log |-> <<>>, tx |-> <<>>,
     user |-> NoUser, written |-> NoUser, deleted |-> FALSE, all_users |-> <<>>,
     status |-> 0, raised |-> "", error |-> NoError, data |-> <<>>, count |-> 0]

\* A dependency that makes a session whenever it is asked for one.
get_session_AlwaysNew(request) ==
    [request EXCEPT !.created = @ + 1, !.session = request.created + 1,
                    !.log = Append(@, "begin")]

\* get_request_main_async_db_session: the session of the request, made and
\* begun when the request has none.
get_session(request) ==
    IF request.session = 0
    THEN [request EXCEPT !.created = @ + 1, !.session = request.created + 1,
                         !.log = Append(@, "begin")]
    ELSE request

\* session.execute(...) on the session of the request.
Execute(request) ==
    LET with_session == get_session(request)
    IN [with_session EXCEPT !.log = Append(@, "execute")]

\* UsersRepository.get_all
get_all(request, committed) ==
    [Execute(request) EXCEPT !.all_users = View(committed, request.tx)]

\* UsersRepository.count_all
count_all(request, committed) ==
    [Execute(request) EXCEPT
        !.count = Cardinality(DOMAIN View(committed, request.tx))]

\* UsersRepository.get_by_id
get_by_id(request, committed) ==
    LET view == View(committed, request.tx)
    IN [Execute(request) EXCEPT
           !.user = IF request.user_id \in DOMAIN view
                    THEN [id |-> request.user_id, email |-> view[request.user_id]]
                    ELSE NoUser]

\* UsersRepository.create: the insert fails on the unique email.
UsersRepository_create(request, committed) ==
    LET view == View(committed, request.tx)
    IN IF \E i \in DOMAIN view : view[i] = request.email
       THEN [Execute(request) EXCEPT !.raised = "IntegrityError"]
       ELSE [Execute(request) EXCEPT
                !.tx = (request.user_id :> request.email) @@ @,
                !.written = [id |-> request.user_id, email |-> request.email]]

\* UsersRepository.update: no statement without a user; the update gives no
\* row when the row is gone and fails on the unique email.
UsersRepository_update(request, committed) ==
    LET view == View(committed, request.tx)
        id == request.user.id
    IN IF request.user = NoUser THEN get_session(request)
       ELSE IF id \notin DOMAIN view THEN Execute(request)
       ELSE IF \E i \in DOMAIN view \ {id} : view[i] = request.email
       THEN [Execute(request) EXCEPT !.raised = "IntegrityError"]
       ELSE [Execute(request) EXCEPT
                !.tx = (id :> request.email) @@ @,
                !.written = [id |-> id, email |-> request.email]]

\* UsersRepository.delete
UsersRepository_delete(request, committed) ==
    LET view == View(committed, request.tx)
        id == request.user.id
    IN IF request.user = NoUser THEN get_session(request)
       ELSE IF id \notin DOMAIN view THEN Execute(request)
       ELSE [Execute(request) EXCEPT !.tx = (id :> "deleted") @@ @,
                                     !.deleted = TRUE]

\* HTTPException(404, NotFoundError(...).model_dump()) through
\* http_exception_handler.
NotFound(request) ==
    [request EXCEPT
        !.status = 404,
        !.error = [code |-> "NOT_FOUND_404",
                   detail |-> <<"User not found with ID=", request.user_id, ".">>]]

\* HTTPException(422, UnprocessableContentError(...).model_dump()).
FailedToDelete(request) ==
    [request EXCEPT
        !.status = 422,
        !.error = [code |-> "UNPROCESSABLE_CONTENT_422",
                   detail |-> <<"Failed to delete user with ID=",
                                request.user_id, ".">>]]

\* An exception no handler is registered for: the server answers 500.
Unhandled(request, exception) ==
    [request EXCEPT !.status = 500, !.raised = exception]

\* The route get_list.
get_list(request) ==
    [request EXCEPT !.status = 200, !.data = request.all_users]

\* The route get_one.
get_one(request) ==
    IF request.user = NoUser THEN NotFound(request)
    ELSE [request EXCEPT !.status = 200, !.data = request.user]

\* The route create.
create(request) == [request EXCEPT !.status = 201, !.data = request.written]

\* The route update: updated_user.id of None raises AttributeError.
update(request) ==
    IF request.user = NoUser THEN NotFound(request)
    ELSE IF request.written = NoUser THEN Unhandled(request, "AttributeError")
    ELSE [request EXCEPT !.status = 200, !.data = request.written]

\* A route delete that looks at deleted before it looks at user.
delete_DeletedFirst(request) ==
    IF ~request.deleted THEN FailedToDelete(request)
    ELSE IF request.user = NoUser THEN NotFound(request)
    ELSE [request EXCEPT !.status = 204]

\* The route delete.
delete(request) ==
    IF request.user = NoUser THEN NotFound(request)
    ELSE IF ~request.deleted THEN FailedToDelete(request)
    ELSE [request EXCEPT !.status = 204]

\* A dependency raised: the route is not called.
Responded(request, answered) ==
    [(IF request.raised # "" THEN Unhandled(request, request.raised)
      ELSE answered) EXCEPT !.at = "responded"]

\* A middleware that commits whenever the status is below 500.
handle_main_async_db_session_CommitsClientErrors(request) ==
    IF request.session = 0 THEN request
    ELSE IF request.raised = "" /\ request.status >= 200 /\ request.status < 500
    THEN [request EXCEPT !.log = @ \o <<"commit", "close">>]
    ELSE [request EXCEPT !.log = @ \o <<"rollback", "close">>]

\* handle_main_async_db_session after call_next: commit on a status in
\* [200, 400), rollback on another status and on an exception, then close.
handle_main_async_db_session(request) ==
    IF request.session = 0 THEN request
    ELSE IF request.raised = "" /\ request.status >= 200 /\ request.status < 400
    THEN [request EXCEPT !.log = @ \o <<"commit", "close">>]
    ELSE [request EXCEPT !.log = @ \o <<"rollback", "close">>]

\* The session of the request was committed.
Committed(request) ==
    \E i \in 1..Len(request.log) : request.log[i] = "commit"

Methods == {"get_list", "get_one", "create", "update", "delete"}

\* The ids issued so far, and the next one.
IssuedIds(committed) == DOMAIN committed \cup {requests[r].user_id : r \in
    {q \in 1..Len(requests) : requests[q].method = "create"}}
FreeIds(committed) == (1..MaxUsers) \ IssuedIds(committed)

ServerInit ==
    /\ supplied_fields = SuppliedFieldItems
    /\ supplied_operators = SuppliedOperatorItems
    /\ fields = LowerKeys(supplied_fields)
    /\ operators = LowerKeys(supplied_operators)
    /\ pc = "idle"
    /\ NoCall
    /\ rng = 0
    /\ calls = <<>>
    /\ heap = <<>>
    /\ builders = <<>>
    /\ build_result = NoBuild
    /\ users \in {<<>>, <<"a@tmp.com">>}
    /\ requests = <<>>
    /\ query = NoQuery
    /\ filters_result = NoFilters

\* A request arrives; a create draws the id of the new user.
Receive ==
    /\ requests = <<>>
    /\ \E method \in Methods, email \in Emails :
          \E user_id \in IF method = "create" THEN FreeIds(users)
                         ELSE 1..MaxUsers :
             requests' = <<NewRequest(method, user_id, email)>>
    /\ UNCHANGED <<engineVars, whereVars, orderVars, rng, concurrentVars,
                   assemblerVars, users, query, filters_result>>

\* The first dependency of the route runs its statement; the routes with no
\* other dependency answer.
FirstStatement ==
    /\ requests # <<>>
    /\ requests[1].at = "received"
    /\ LET request == requests[1] IN
       requests' =
          <<CASE request.method = "get_list" ->
                    [get_all(request, users) EXCEPT !.at = "dependencies"]
              [] request.method = "get_one" ->
                    Responded(request, get_one(get_by_id(request, users)))
              [] request.method = "create" ->
                    LET created == UsersRepository_create(request, users)
                    IN Responded(created, create(created))
              [] OTHER ->
                    [get_by_id(request, users) EXCEPT !.at = "dependencies"]>>
    /\ UNCHANGED <<engineVars, whereVars, orderVars, rng, concurrentVars,
                   assemblerVars, users, query, filters_result>>

\* The second dependency of the route runs, and the route answers.
SecondStatement ==
    /\ requests # <<>>
    /\ requests[1].at = "dependencies"
    /\ LET request == requests[1] IN
       requests' =
          <<CASE request.method = "get_list" ->
                    LET counted == count_all(request, users)
                    IN Responded(counted, get_list(counted))
              [] request.method = "update" ->
                    LET updated == UsersRepository_update(request, users)
                    IN Responded(updated, update(updated))
              [] request.method = "delete" ->
                    LET deleted == UsersRepository_delete(request, users)
                    IN Responded(deleted, delete(deleted))>>
    /\ UNCHANGED <<engineVars, whereVars, orderVars, rng, concurrentVars,
                   assemblerVars, users, query, filters_result>>

\* The session middleware ends the transaction and closes the session; a
\* commit makes the writes of the transaction the committed rows.
EndSession ==
    /\ requests # <<>>
    /\ requests[1].at = "responded"
    /\ LET ended == handle_main_async_db_session(requests[1]) IN
       /\ requests' = <<[ended EXCEPT !.at = "finished"]>>
       /\ users' = IF Committed(ended) THEN ended.tx @@ users ELSE users
    /\ UNCHANGED <<engineVars, whereVars, orderVars, rng, concurrentVars,
                   assemblerVars, query, filters_result>>

\* The client has its response.
Answered ==
    /\ requests # <<>>
    /\ requests[1].at = "finished"
    /\ requests' = <<>>
    /\ UNCHANGED <<engineVars, whereVars, orderVars, rng, concurrentVars,
                   assemblerVars, users, query, filters_result>>

\* The rows and emails the open transaction of the request holds: another
\* transaction that writes one of them waits for the end of this one.
HeldIds == UNION {DOMAIN requests[r].tx : r \in 1..Len(requests)}
HeldEmails == UNION {{requests[r].tx[i] : i \in DOMAIN requests[r].tx} : r \in 1..Len(requests)}

\* Another request commits: a create, an update or a delete answered 2xx.
OtherRequestCommits ==
    /\ LET view == View(users, <<>>) IN
       \/ \E id \in FreeIds(users), email \in Emails \ HeldEmails :
             /\ \A i \in DOMAIN view : view[i] # email
             /\ users' = (id :> email) @@ users
       \/ \E id \in DOMAIN view \ HeldIds, email \in Emails \ HeldEmails :
             /\ \A i \in DOMAIN view : view[i] # email
             /\ users' = (id :> email) @@ users
       \/ \E id \in DOMAIN view \ HeldIds :
             users' = (id :> "deleted") @@ users
    /\ UNCHANGED <<engineVars, whereVars, orderVars, rng, concurrentVars,
                   assemblerVars, requests, query, filters_result>>

ServerNext ==
    \/ Receive \/ FirstStatement \/ SecondStatement \/ EndSession \/ Answered
    \/ OtherRequestCommits

ServerSpec == ServerInit /\ [][ServerNext]_vars

\* The request followed, once it is past the given positions.
RequestAt(positions) == requests # <<>> /\ requests[1].at \in positions

ByUserId == {"get_one", "update", "delete"}

C22_UpdateNoneIs404 ==
    ( /\ RequestAt({"responded", "finished"})
      /\ requests[1].method = "update"
      /\ requests[1].written = NoUser
      /\ requests[1].raised # "IntegrityError" )
    => requests[1].status = 404

\* C23: a request that opened the session has it committed exactly when the
\* status is in [200, 400) and rolled back otherwise, also after an
\* exception; a commit makes the created, updated or deleted row what a
\* later session reads, a rollback leaves the stored users as they were.
C23_CommitIffSuccess ==
    [][( /\ RequestAt({"responded"})
         /\ requests' # <<>>
         /\ requests'[1].at = "finished"
         /\ requests[1].session # 0 )
       => LET request == requests'[1]
              ok == /\ request.raised = ""
                    /\ request.status >= 200
                    /\ request.status < 400
              later == View(users', <<>>)
          IN /\ Committed(request) <=> ok
             /\ ~ok <=> (\E i \in 1..Len(request.log) : request.log[i] = "rollback")
             /\ ok /\ request.method \in {"create", "update"}
                   => /\ request.written.id \in DOMAIN later
                      /\ later[request.written.id] = request.email
             /\ ok /\ request.method = "delete"
                   => request.user_id \notin DOMAIN later
             /\ ~ok => users' = users]_vars

C23_Witness ==
    /\ RequestAt({"finished"})
    /\ requests[1].method = "update"
    /\ requests[1].status = 200
    /\ Committed(requests[1])
    /\ users[requests[1].user_id] = requests[1].email
    /\ requests[1].user.email # requests[1].email

\* The session operations of a request in order.
SessionOps(request, op) == {i \in 1..Len(request.log) : request.log[i] = op}

\* C28: a request creates at most one session, every dependency gets that
\* one, and when the middleware is done the session has been closed exactly
\* once, as the last operation on it, right after its commit or rollback.
C28_OneSessionClosedOnce ==
    \A r \in 1..Len(requests) :
       LET request == requests[r]
           n == Len(request.log)
       IN /\ request.created <= 1
          /\ request.session = request.created
          /\ Cardinality(SessionOps(request, "begin")) = request.created
          /\ request.at # "finished" => SessionOps(request, "close") = {}
          /\ (request.at = "finished" /\ request.created > 0)
                => /\ SessionOps(request, "close") = {n}
                   /\ SessionOps(request, "commit") \cup
                      SessionOps(request, "rollback") = {n - 1}

C28_Witness ==
    /\ RequestAt({"finished"})
    /\ requests[1].method = "delete"
    /\ requests[1].log = <<"begin", "execute", "execute", "commit", "close">>

\* C29: in a response of GET /api/auth/users meta.count is the number of
\* entries of data, whatever other requests commit between the list query
\* and the count query.
C29_CountIsLenData ==
    ( /\ RequestAt({"responded", "finished"})
      /\ requests[1].method = "get_list"
      /\ requests[1].status = 200 )
    => requests[1].count = Cardinality(DOMAIN requests[1].data)

====
